---- MODULE Spec2Model ----
(***************************************************************************)
(* Email warm-up service: the scheduler, the campaign consumer (expander), *)
(* the PoolCoordinator Durable Object (account allocator) and the          *)
(* engagement worker (executor), as state machines over the D1 store, the  *)
(* two queues and the Durable Object storage.                              *)
(*                                                                         *)
(* Time is counted in ticks of 30 minutes: 3600000 ms = 2 ticks,           *)
(* 86400000 ms = 48 ticks.  Date.now() is never 0: the clock starts at 1.  *)
(***************************************************************************)
EXTENDS Integers, Sequences, FiniteSets, TLC

\* ------------------------------------------------------------------ bounds
MaxFine == 2        \* clock readings 1 .. 1+MaxFine within a day
MaxDays == 1        \* and the same readings MaxDays days later
MaxReq == 2         \* select-accounts requests per behaviour
MaxPool == 2        \* largest poolSize requested
MaxRestarts == 1    \* restarts of one allocator instance
MaxMsgs == 1        \* Campaign Channel messages waiting per campaign
MaxRuns == 2        \* scheduler runs
MaxAttempts == 2    \* deliveries handled by the engagement consumer
MaxBatch == 2       \* messages in one batch of the engagement consumer
MaxLinks == 3       \* links extracted from one message
MaxClients == 2     \* rows of clients, and API keys issued

\* ------------------------------------------------- program constants (ticks)
minTimeBetweenUses == 2     \* 3600000 ms
dayInMs == 48               \* 86400000 ms
alarmPeriod == 2            \* 3600000 ms, the literal of setAlarm

Campaigns == {1, 2}
Accounts == {7, 10, 12}
\* The rows of gmail_accounts at the start; the third is inserted later.
InitialAccounts == {7, 10}

None == {}
Some(x) == {x}
TheValue(o) == CHOOSE x \in o : TRUE

Min(a, b) == IF a <= b THEN a ELSE b
Range(s) == {s[i] : i \in 1..Len(s)}

\* The instants at which the clock is read.
Times == {1 + f + d * dayInMs : f \in 0..MaxFine, d \in 0..MaxDays}

VARIABLES
  now,               \* Date.now()
  acctStatus,        \* gmail_accounts.status, "missing" when there is no row
  acctLastUsedAt,    \* gmail_accounts.last_used_at, None for NULL
  lastUsedAccounts,  \* PoolCoordinator.lastUsedAccounts, per campaign instance
  storage,           \* Durable Object storage key 'lastUsedAccounts' as get() sees it
  disk,              \* the same key as last flushed: what survives a crash
  alarmAt,           \* the alarm set by setAlarm, None when none
  alarmPc,           \* position of the alarm handler of each instance
  calls,             \* the select-accounts requests, by request number
  response,          \* the response the step just taken sent, as its caller receives it
  returned,          \* history: the reservations handed to callers
  incarnation,       \* history: how often each instance was constructed anew
  campStatus,        \* campaigns.status, "missing" when there is no row
  campPoolSize,      \* campaigns.pool_size
  campSettings,      \* campaigns.engagement_settings, rates in thousandths
  campaignQueue,     \* CAMPAIGN_QUEUE: messages {campaignId} waiting, per campaignId
  engagementQueue,   \* ENGAGEMENT_QUEUE: the messages sent, in sending order
  exp,               \* the campaign consumer at its current message
  failedCalls,       \* history: the reservations of expansions that ended in retry
  sched,             \* the scheduler at its current run
  acctExpired,       \* whether oauth_credentials of the account are past expiry_date
  log,               \* engagement_logs, in insertion order
  exec,              \* the engagement consumer at its current message
  click,             \* the links of the message being clicked and the candidates
  clients,           \* the number of rows of clients (ids 1..clients)
  campOwner,         \* campaigns.client_id, 0 when there is no row
  apiKeys,           \* the API_KEYS namespace: key -> clientId, 0 when absent
  apiResp            \* the last API request and its response

allocVars == <<lastUsedAccounts, storage, disk, alarmAt, alarmPc, calls,
               response, returned, incarnation>>
storeVars == <<acctStatus, acctLastUsedAt>>
campVars == <<campStatus, campPoolSize, campSettings>>
queueVars == <<campaignQueue, engagementQueue>>
expVars == <<exp, failedCalls>>
schedVars == <<sched>>
execVars == <<acctExpired, log, exec>>
clickVars == <<click>>
apiVars == <<clients, campOwner, apiKeys, apiResp>>
vars == <<now, storeVars, allocVars, campVars, queueVars, expVars, schedVars,
          execVars, clickVars, apiVars>>

\* ------------------------------------------------- Object keys <-> numbers
\* accountId.toString(): the decimal digits, most significant first.
RECURSIVE toString(_)
toString(n) == IF n < 10 THEN <<n>> ELSE Append(toString(n \div 10), n % 10)

\* parseInt(k) of a digit string.
RECURSIVE parseInt(_)
parseInt(s) ==
  IF Len(s) = 1 THEN s[1]
  ELSE parseInt(SubSeq(s, 1, Len(s) - 1)) * 10 + s[Len(s)]

\* A saveState that writes an empty record.
toStore_Empty(m) == <<>>

\* saveState: the Record<string, number> built from the Map.
toStore(m) ==
  [k \in {toString(a) : a \in DOMAIN m} |->
     m[CHOOSE a \in DOMAIN m : toString(a) = k]]

\* loadState: new Map(Object.entries(stored).map(([k, v]) => [parseInt(k), v])).
fromStored(stored) ==
  [a \in {parseInt(k) : k \in DOMAIN stored} |->
     stored[CHOOSE k \in DOMAIN stored : parseInt(k) = a]]

\* A loadState that leaves the resident map as it is.
loadState_Skip(m, got) == m

\* loadState: the map after storage.get returned `got` (None for undefined).
loadState(m, got) == IF got # None THEN fromStored(TheValue(got)) ELSE m

\* ------------------------------------------------------------- the store
\* ORDER BY last_used_at ASC NULLS FIRST: the sort key of a row.
NullsFirstLeq(a, b) ==
  \/ acctLastUsedAt[a] = None
  \/ /\ acctLastUsedAt[b] # None
     /\ TheValue(acctLastUsedAt[a]) <= TheValue(acctLastUsedAt[b])

\* WHERE status = 'active'
ActiveAccounts == {a \in Accounts : acctStatus[a] = "active"}

\* The query without its ORDER BY: the active rows in any order.
SelectActiveAccounts_Unordered(limit) ==
  LET act == ActiveAccounts
      n == Cardinality(act)
      listed == {s \in [1..n -> act] : \A i, j \in 1..n : i # j => s[i] # s[j]}
  IN {SubSeq(s, 1, Min(limit, n)) : s \in listed}

\* SELECT id, last_used_at FROM gmail_accounts WHERE status = 'active'
\* ORDER BY last_used_at ASC NULLS FIRST LIMIT limit: every result the store
\* may give (rows with equal keys come in any order).
SelectActiveAccounts(limit) ==
  LET act == ActiveAccounts
      n == Cardinality(act)
      sorted == {s \in [1..n -> act] :
                   /\ \A i, j \in 1..n : i # j => s[i] # s[j]
                   /\ \A i, j \in 1..n : i < j => NullsFirstLeq(s[i], s[j])}
  IN {SubSeq(s, 1, Min(limit, n)) : s \in sorted}

\* ------------------------------------------------ PoolCoordinator.selectAccounts
\* A filter that lets every row through.
Available_Always(m, accountId, t) == TRUE

\* A filter that compares the age in milliseconds with the interval in seconds.
Available_Seconds(m, accountId, t) ==
  IF accountId \notin DOMAIN m THEN TRUE
  ELSE (t - m[accountId]) * 1000 >= minTimeBetweenUses

\* A filter that asks for more than the interval.
Available_Strict(m, accountId, t) ==
  IF accountId \notin DOMAIN m THEN TRUE
  ELSE (t - m[accountId]) > minTimeBetweenUses

\* The filter of lines 82-91 for one row; !lastUsed holds for undefined and
\* for a timestamp of 0.
Available(m, accountId, t) ==
  IF accountId \notin DOMAIN m \/ m[accountId] = 0 THEN TRUE
  ELSE (t - m[accountId]) >= minTimeBetweenUses

\* A selection that forgets the slice.
SelectFrom_NoSlice(m, rows, poolSize, t) ==
  LET Test(a) == Available(m, a, t)
  IN SelectSeq(rows, Test)

\* availableAccounts.slice(0, Math.min(poolSize, availableAccounts.length))
SelectFrom(m, rows, poolSize, t) ==
  LET Test(a) == Available(m, a, t)
      availableAccounts == SelectSeq(rows, Test)
  IN SubSeq(availableAccounts, 1, Min(poolSize, Len(availableAccounts)))

\* accountIds.forEach(id => this.lastUsedAccounts.set(id, now))
\* A reservation that leaves the map as it was.
MarkUsed_Nothing(m, accountIds, t) == m

MarkUsed(m, accountIds, t) ==
  [a \in DOMAIN m \cup Range(accountIds) |->
     IF a \in Range(accountIds) THEN t ELSE m[a]]

\* A filter that consults the flushed snapshot instead of the resident map.
ResidentMap_Flushed(c) == loadState(<<>>, disk[c])

\* One map shared by the instances of all campaigns.
ResidentMap_Shared(c) == lastUsedAccounts[1]

\* this.lastUsedAccounts, as the filter and the forEach of lines 82-100 see it.
ResidentMap(c) == lastUsedAccounts[c]

IdleCall == [pc |-> "idle", camp |-> 0, poolSize |-> 0, at |-> 0,
             accountIds |-> <<>>, activeAtQuery |-> {}, rows |-> <<>>]

\* What the caller of request k receives: Response.json({ accountIds }) with
\* status "ok", Response.json({ error }, { status: 500 }) with status "error",
\* or no response at all ("lost") when the instance died.
Respond(k, status, accountIds) ==
  [call |-> k, camp |-> calls[k].camp, poolSize |-> calls[k].poolSize,
   status |-> status, accountIds |-> accountIds, at |-> calls[k].at,
   activeAtQuery |-> calls[k].activeAtQuery, rows |-> calls[k].rows]

NoResponse == [call |-> 0, camp |-> 0, poolSize |-> 0, status |-> "none",
               accountIds |-> <<>>, at |-> 0, activeAtQuery |-> {},
               rows |-> <<>>]

ClosedCall == [IdleCall EXCEPT !.pc = "closed"]

InFlight(k) == calls[k].pc \in {"query", "save", "savefail"}
Busy(c) == \/ \E k \in 1..MaxReq : InFlight(k) /\ calls[k].camp = c
           \/ alarmPc[c] # "idle"

\* History kept in `returned`: a reservation stamped t can only be within the
\* reuse window of one stamped earlier than t + minTimeBetweenUses, and every
\* later response is stamped at least Low, the least of the clock and of the
\* stamps of the responses not yet sent.  Entries older than the reuse
\* interval before Low are dropped.
Low(cs, t) ==
  LET pending == {cs[k].at : k \in {j \in 1..MaxReq : cs[j].pc = "save"}} \cup {t}
  IN CHOOSE x \in pending : \A y \in pending : x <= y

Prune(R, cs, t) ==
  [c \in Campaigns |-> {e \in R[c] : e.at + minTimeBetweenUses >= Low(cs, t)}]

\* The request arrives, the body is parsed and loadState's storage.get
\* completes; the store query is issued.
selectAccounts_load(k, c, poolSize) ==
  /\ calls[k].pc = "idle"
  /\ \A j \in 1..(k - 1) : calls[j].pc # "idle"
  /\ lastUsedAccounts' =
       [lastUsedAccounts EXCEPT ![c] = loadState(lastUsedAccounts[c], storage[c])]
  /\ calls' = [calls EXCEPT ![k] =
       [IdleCall EXCEPT !.pc = "query", !.camp = c, !.poolSize = poolSize]]
  /\ response' = NoResponse
  /\ UNCHANGED <<now, storeVars, storage, disk, alarmAt, alarmPc,
                 returned, incarnation>>

\* The store query returns rows; lines 75-103 run without suspension up to
\* the storage.put of saveState, which either takes the write or rejects.
selectAccounts_select(k) ==
  /\ calls[k].pc = "query"
  /\ LET c == calls[k].camp IN
     \E rows \in SelectActiveAccounts(calls[k].poolSize * 2) :
       IF Len(rows) = 0
       THEN /\ calls' = [calls EXCEPT ![k] = ClosedCall]
            /\ response' = [Respond(k, "ok", <<>>) EXCEPT
                              !.at = now, !.activeAtQuery = ActiveAccounts]
            /\ UNCHANGED <<lastUsedAccounts, storage>>
       ELSE LET accountIds == SelectFrom(ResidentMap(c), rows,
                                         calls[k].poolSize, now)
                m == MarkUsed(ResidentMap(c), accountIds, now)
            IN /\ lastUsedAccounts' = [lastUsedAccounts EXCEPT ![c] = m]
               /\ \E putOk \in BOOLEAN :
                    /\ storage' = IF putOk
                                  THEN [storage EXCEPT ![c] = Some(toStore(m))]
                                  ELSE storage
                    /\ calls' = [calls EXCEPT
                         ![k].pc = IF putOk THEN "save" ELSE "savefail",
                         ![k].at = now,
                         ![k].accountIds = accountIds,
                         ![k].activeAtQuery = ActiveAccounts,
                         ![k].rows = rows]
                    /\ response' = NoResponse
  /\ UNCHANGED <<now, storeVars, disk, alarmAt, alarmPc, returned,
                 incarnation>>

\* The store query throws: the catch of line 106 answers with the error payload.
selectAccounts_queryError(k) ==
  /\ calls[k].pc = "query"
  /\ calls' = [calls EXCEPT ![k] = ClosedCall]
  /\ response' = Respond(k, "error", <<>>)
  /\ UNCHANGED <<now, storeVars, lastUsedAccounts, storage, disk, alarmAt,
                 alarmPc, returned, incarnation>>

\* saveState's put is flushed; Response.json({ accountIds }).
selectAccounts_respond(k) ==
  /\ calls[k].pc = "save"
  /\ LET c == calls[k].camp IN
     /\ disk' = [disk EXCEPT ![c] = storage[c]]
     /\ calls' = [calls EXCEPT ![k] = ClosedCall]
     /\ response' = Respond(k, "ok", calls[k].accountIds)
     /\ UNCHANGED incarnation
     /\ returned' = Prune([returned EXCEPT ![c] = @ \cup
          {[call |-> k, acc |-> a, at |-> calls[k].at, inc |-> incarnation[c]] :
             a \in Range(calls[k].accountIds)}], calls', now)
  /\ UNCHANGED <<now, storeVars, lastUsedAccounts, storage, alarmAt, alarmPc>>

\* saveState's put rejected: the catch of line 106 answers with the error payload.
selectAccounts_saveError(k) ==
  /\ calls[k].pc = "savefail"
  /\ calls' = [calls EXCEPT ![k] = ClosedCall]
  /\ response' = Respond(k, "error", <<>>)
  /\ UNCHANGED <<now, storeVars, lastUsedAccounts, storage, disk, alarmAt,
                 alarmPc, returned, incarnation>>

\* ------------------------------------------------------ PoolCoordinator.alarm
\* A sweep that deletes every entry made before the current instant.
Sweep_AnyAge(m, t) == [a \in {x \in DOMAIN m : ~((t - m[x]) > 0)} |-> m[a]]

\* A sweep that also deletes the entries that are exactly dayInMs old.
Sweep_AtHorizon(m, t) == [a \in {x \in DOMAIN m : (t - m[x]) < dayInMs} |-> m[a]]

\* The entries the sweep keeps: it deletes those with now - timestamp > dayInMs.
Sweep(m, t) == [a \in {x \in DOMAIN m : ~((t - m[x]) > dayInMs)} |-> m[a]]

\* loadState, the delete loop and saveState's put (lines 138-148).
alarm_sweep(c) ==
  /\ alarmPc[c] = "idle"
  /\ LET m == Sweep(loadState(lastUsedAccounts[c], storage[c]), now) IN
     /\ lastUsedAccounts' = [lastUsedAccounts EXCEPT ![c] = m]
     /\ storage' = [storage EXCEPT ![c] = Some(toStore(m))]
  /\ alarmPc' = [alarmPc EXCEPT ![c] = "save"]
  /\ response' = NoResponse
  /\ UNCHANGED <<now, storeVars, disk, alarmAt, calls, returned, incarnation>>

\* The put is flushed; setAlarm(Date.now() + 3600000) (line 151).
alarm_reschedule(c) ==
  /\ alarmPc[c] = "save"
  /\ disk' = [disk EXCEPT ![c] = storage[c]]
  /\ alarmAt' = [alarmAt EXCEPT ![c] = Some(now + alarmPeriod)]
  /\ alarmPc' = [alarmPc EXCEPT ![c] = "idle"]
  /\ response' = NoResponse
  /\ UNCHANGED <<now, storeVars, lastUsedAccounts, storage, calls,
                 returned, incarnation>>

\* The runtime calls alarm() of an instance only when an alarm armed with
\* setAlarm has come due; the only setAlarm of the class is the one at the end
\* of alarm() itself (line 151).
AlarmDue(c) == alarmAt[c] # None /\ now >= TheValue(alarmAt[c])

\* The runtime looks at the alarm of instance c: a handler under way runs on to
\* its end, a due alarm starts the handler, and otherwise nothing runs.
runtime_alarm(c) ==
  IF alarmPc[c] = "save"
  THEN alarm_reschedule(c)
  ELSE IF AlarmDue(c)
       THEN alarm_sweep(c)
       ELSE UNCHANGED <<now, storeVars, lastUsedAccounts, storage, disk,
                        alarmAt, alarmPc, calls, response, returned,
                        incarnation>>

\* The instance is evicted or crashes: the constructor runs again (lines
\* 44-48), requests in flight are lost, unflushed writes may or may not be
\* on disk.
Restart(c) ==
  /\ incarnation[c] < MaxRestarts
  /\ incarnation' = [incarnation EXCEPT ![c] = @ + 1]
  /\ lastUsedAccounts' = [lastUsedAccounts EXCEPT ![c] = <<>>]
  /\ \E kept \in {storage[c], disk[c]} :
       /\ storage' = [storage EXCEPT ![c] = kept]
       /\ disk' = [disk EXCEPT ![c] = kept]
  /\ calls' = [k \in 1..MaxReq |->
       IF InFlight(k) /\ calls[k].camp = c
       THEN ClosedCall
       ELSE calls[k]]
  /\ alarmPc' = [alarmPc EXCEPT ![c] = "idle"]
  /\ returned' = Prune(returned, calls', now)
  /\ response' = NoResponse
  /\ UNCHANGED <<now, storeVars, alarmAt>>

\* ------------------------------------------------------------ environment
Advance(t) ==
        /\ t > now /\ now' = t
        /\ returned' = Prune(returned, calls, now')
        /\ response' = NoResponse
        /\ UNCHANGED <<storeVars, lastUsedAccounts, storage, disk, alarmAt,
                       alarmPc, calls, incarnation>>

Tick == \E t \in Times : Advance(t)

\* The clock advances within the first day.
TickHours == \E t \in {x \in Times : x <= dayInMs} : Advance(t)

\* An operator changes a pool account's status, inserts or deletes its row.
SetAccountStatus(a, s) ==
  /\ acctStatus[a] # s
  /\ acctStatus' = [acctStatus EXCEPT ![a] = s]
  /\ acctLastUsedAt' = IF s = "missing" \/ acctStatus[a] = "missing"
                       THEN [acctLastUsedAt EXCEPT ![a] = None]
                       ELSE acctLastUsedAt
  /\ response' = NoResponse
  /\ UNCHANGED <<now, lastUsedAccounts, storage, disk, alarmAt, alarmPc, calls,
                 returned, incarnation>>

\* The engagement consumer has finished a task of an account some allocator
\* reserved earlier: UPDATE gmail_accounts SET last_used_at = now (lines 71-74
\* of the engagement consumer).
touchLastUsedAt(a) ==
  /\ acctStatus[a] # "missing"
  /\ \E c \in Campaigns : a \in DOMAIN lastUsedAccounts[c]
  /\ acctLastUsedAt[a] # Some(now)
  /\ acctLastUsedAt' = [acctLastUsedAt EXCEPT ![a] = Some(now)]
  /\ response' = NoResponse
  /\ UNCHANGED <<now, acctStatus, lastUsedAccounts, storage, disk, alarmAt,
                 alarmPc, calls, returned, incarnation>>

\* ------------------------------------------------ campaign consumer (expander)
\* engagement_settings of the campaign rows, in thousandths.
OpenOnly == [move_to_inbox_rate |-> 0, open_rate |-> 1000,
             click_rate |-> 0, reply_rate |-> 0]
HalfOpen == [move_to_inbox_rate |-> 0, open_rate |-> 500,
             click_rate |-> 0, reply_rate |-> 0]

\* campaigns.sender_email
senderEmail == [c \in Campaigns |-> IF c = 1 THEN "a@sender" ELSE "b@sender"]

\* Math.random(), in thousandths: a value in [0, 1).
RandomValues == {0, 999}

\* Math.round(Math.random() * 300)
delaySeconds_Round(r) == (r * 300 + 500) \div 1000

\* Math.floor(Math.random() * 300)
delaySeconds(r) == (r * 300) \div 1000

\* A sampling that pushes the first kind drawn only.
Actions_Exclusive(settings, r) ==
  IF r[1] < settings.move_to_inbox_rate THEN <<"move_to_inbox">>
  ELSE IF r[2] < settings.open_rate THEN <<"open">>
  ELSE IF r[3] < settings.click_rate THEN <<"click">>
  ELSE IF r[4] < settings.reply_rate THEN <<"reply">>
  ELSE <<>>

\* Lines 49-63: the actions pushed for one account, given the four random
\* numbers drawn in the order move_to_inbox, open, click, reply.
Actions(settings, r) ==
  (IF r[1] < settings.move_to_inbox_rate THEN <<"move_to_inbox">> ELSE <<>>) \o
  (IF r[2] < settings.open_rate THEN <<"open">> ELSE <<>>) \o
  (IF r[3] < settings.click_rate THEN <<"click">> ELSE <<>>) \o
  (IF r[4] < settings.reply_rate THEN <<"reply">> ELSE <<>>)

IdleExp == [pc |-> "idle", camp |-> 0, call |-> 0, result |-> "none",
            accountIds |-> <<>>, i |-> 0, actions |-> <<>>, outcome |-> "none",
            sendFailed |-> FALSE, settings |-> <<>>, campaign |-> "none",
            published |-> {}]

\* A lookup by id alone, whatever the status of the row.
CampaignLookup_AnyStatus(c) == IF campStatus[c] # "missing" THEN "row" ELSE "null"

\* SELECT * FROM campaigns WHERE id = ? AND status = 'active', .first()
\* (lines 12-14): the row, or null when no row has the id and the status.
CampaignLookup(c) == IF campStatus[c] = "active" THEN "row" ELSE "null"

\* CAMPAIGN_QUEUE.send({ campaignId: c }) as the scheduler does it (lines 17-21).
campaignQueue_send(c) ==
  /\ campaignQueue[c] < MaxMsgs
  /\ campaignQueue' = [campaignQueue EXCEPT ![c] = @ + 1]
  /\ UNCHANGED <<now, storeVars, allocVars, campVars, engagementQueue, expVars>>

\* An operator or the API sets the campaign status.
SetCampaignStatus(c, st) ==
  /\ campStatus[c] # st
  /\ campStatus' = [campStatus EXCEPT ![c] = st]
  /\ UNCHANGED <<now, storeVars, allocVars, campPoolSize, campSettings,
                 queueVars, expVars>>

\* The API updates pool_size and engagement_settings of a campaign.
UpdateCampaign(c, poolSize, settings) ==
  /\ campPoolSize[c] # poolSize \/ campSettings[c] # settings
  /\ campPoolSize' = [campPoolSize EXCEPT ![c] = poolSize]
  /\ campSettings' = [campSettings EXCEPT ![c] = settings]
  /\ UNCHANGED <<now, storeVars, allocVars, campStatus, queueVars, expVars>>

\* message.ack(): the message is gone.  message.retry(): it is delivered again.
Settle(c, outcome) ==
  campaignQueue' = IF outcome = "retry"
                   THEN [campaignQueue EXCEPT ![c] = @ + 1]
                   ELSE campaignQueue

\* A message {campaignId: c} is delivered; the campaign row is read (lines
\* 9-14).  Not found or not active: ack.  Otherwise the select-accounts
\* request k is sent to the Durable Object of the campaign (lines 27-35).
consumer_receive(c, k) ==
  /\ exp.pc \in {"idle", "done"}
  /\ campaignQueue[c] > 0
  /\ IF CampaignLookup(c) = "null"
     THEN /\ exp' = [IdleExp EXCEPT !.pc = "done", !.camp = c, !.outcome = "ack",
                                    !.campaign = "null"]
          /\ campaignQueue' = [campaignQueue EXCEPT ![c] = @ - 1]
          /\ UNCHANGED calls
     ELSE /\ calls[k].pc = "idle"
          /\ \A j \in 1..(k - 1) : calls[j].pc # "idle"
          /\ exp' = [IdleExp EXCEPT !.pc = "request", !.camp = c, !.call = k,
                                    !.settings = campSettings[c],
                                    !.campaign = "row"]
          /\ campaignQueue' = [campaignQueue EXCEPT ![c] = @ - 1]
          /\ calls' = [calls EXCEPT ![k] =
               [IdleCall EXCEPT !.pc = "sent", !.camp = c,
                                !.poolSize = campPoolSize[c]]]
  /\ response' = NoResponse
  /\ UNCHANGED <<now, storeVars, lastUsedAccounts, storage, disk, alarmAt,
                 alarmPc, returned, incarnation, campVars, engagementQueue,
                 failedCalls>>

\* The campaign SELECT throws (line 12): catch, message.retry().
consumer_lookupError(c) ==
  /\ exp.pc \in {"idle", "done"}
  /\ campaignQueue[c] > 0
  /\ exp' = [IdleExp EXCEPT !.pc = "done", !.camp = c, !.outcome = "retry",
                            !.campaign = "error"]
  /\ response' = NoResponse
  /\ UNCHANGED <<now, storeVars, lastUsedAccounts, storage, disk, alarmAt,
                 alarmPc, calls, returned, incarnation, campVars, queueVars,
                 failedCalls>>

\* What the consumer holds once the allocator has answered its request (or
\* the request was lost with the instance): await doStub.fetch, line 31.
Received(e, cs, resp) ==
  IF e.pc = "await" /\ cs[e.call].pc = "closed"
  THEN IF resp.call = e.call
       THEN [e EXCEPT !.pc = "got", !.result = resp.status,
                      !.accountIds = resp.accountIds]
       ELSE [e EXCEPT !.pc = "got", !.result = "lost"]
  ELSE e

\* The request of the consumer reaches the Durable Object.
consumer_request ==
  /\ exp.pc = "request"
  /\ calls[exp.call].pc = "sent"
  /\ lastUsedAccounts' = [lastUsedAccounts EXCEPT ![exp.camp] =
       loadState(lastUsedAccounts[exp.camp], storage[exp.camp])]
  /\ calls' = [calls EXCEPT ![exp.call].pc = "query"]
  /\ exp' = [exp EXCEPT !.pc = "await"]
  /\ response' = NoResponse
  /\ UNCHANGED <<now, storeVars, storage, disk, alarmAt, alarmPc, returned,
                 incarnation, campVars, queueVars, failedCalls>>

\* Lines 48-63 for the account at position i, draws[i] being the actions its
\* four random numbers push.  With no action pushed the loop goes on to the
\* next account; after the last account the message is acknowledged (line 79).
RECURSIVE NextAccount(_, _, _)
NextAccount(e, i, draws) ==
  IF i > Len(e.accountIds)
  THEN [e EXCEPT !.pc = "done", !.i = i, !.actions = <<>>, !.outcome = "ack"]
  ELSE LET acts == draws[i]
       IN IF acts = <<>>
          THEN NextAccount(e, i + 1, draws)
          ELSE [e EXCEPT !.pc = "publish", !.i = i, !.actions = acts]

\* The action lists the random numbers of the accounts at positions lo..hi
\* can push.
Draws(settings, lo, hi) ==
  [lo..hi -> {Actions(settings, r) : r \in [1..4 -> RandomValues]}]

\* A send failure that is swallowed: the loop goes on with the next action.
OnSendError_Swallow(e) ==
  [e EXCEPT !.sendFailed = TRUE,
            !.actions = Tail(e.actions),
            !.pc = IF Len(e.actions) > 1 \/ e.i < Len(e.accountIds)
                   THEN "publish" ELSE "done",
            !.i = IF Len(e.actions) > 1 THEN e.i ELSE e.i + 1,
            !.outcome = IF Len(e.actions) > 1 \/ e.i < Len(e.accountIds)
                        THEN "none" ELSE "ack"]

\* ENGAGEMENT_QUEUE.send throws (line 75): catch, message.retry() (lines 81-83).
OnSendError(e) ==
  [e EXCEPT !.pc = "done", !.outcome = "retry", !.sendFailed = TRUE]

\* A response without accountIds read as an empty list.
OnErrorPayload_Ack(e) == [e EXCEPT !.pc = "done", !.outcome = "ack"]

\* The response has no accountIds (error payload, or no response at all):
\* accountIds.length throws at line 39, or the fetch at line 31, and the
\* catch calls message.retry() (lines 81-84).
OnErrorPayload(e) == [e EXCEPT !.pc = "done", !.outcome = "retry"]

\* An empty reservation treated as a failure of the message.
OnNoAccounts_Retry(e) == [e EXCEPT !.pc = "done", !.outcome = "retry"]

\* accountIds.length === 0 (lines 39-43): message.ack() and continue.
OnNoAccounts(e) == [e EXCEPT !.pc = "done", !.outcome = "ack"]

\* The awaited response is read (line 37) and the loop of lines 48-77 runs up
\* to its first send.  An error payload has no accountIds: accountIds.length
\* throws and the catch of line 81 retries the message.
consumer_expand ==
  /\ exp.pc = "got"
  /\ \E draws \in Draws(exp.settings, 1, Len(exp.accountIds)) :
       exp' = IF exp.result # "ok"
              THEN OnErrorPayload(exp)
              ELSE IF Len(exp.accountIds) = 0
              THEN OnNoAccounts(exp)
              ELSE NextAccount(exp, 1, draws)
  /\ Settle(exp.camp, exp'.outcome)
  /\ failedCalls' = failedCalls
  /\ response' = NoResponse
  /\ UNCHANGED <<now, storeVars, lastUsedAccounts, storage, disk, alarmAt,
                 alarmPc, calls, returned, incarnation, campVars,
                 engagementQueue>>

\* ENGAGEMENT_QUEUE.send of the first pending action succeeds (lines 66-76);
\* the loops go on to the next send or to the ack of line 79.
consumer_publish ==
  /\ exp.pc = "publish"
  /\ \E r \in RandomValues,
        draws \in Draws(exp.settings, exp.i + 1, Len(exp.accountIds)) :
       /\ engagementQueue' = Append(engagementQueue,
            [campaignId |-> exp.camp,
             gmailAccountId |-> exp.accountIds[exp.i],
             senderEmail |-> senderEmail[exp.camp],
             actionType |-> Head(exp.actions),
             delaySeconds |-> delaySeconds(r)])
       /\ LET e == [exp EXCEPT !.published = @ \cup
                       {[acc |-> exp.accountIds[exp.i],
                         kind |-> Head(exp.actions)]}]
          IN exp' = IF Len(exp.actions) > 1
                    THEN [e EXCEPT !.actions = Tail(exp.actions)]
                    ELSE NextAccount(e, exp.i + 1, draws)
  /\ Settle(exp.camp, exp'.outcome)
  /\ response' = NoResponse
  /\ UNCHANGED <<now, storeVars, lastUsedAccounts, storage, disk, alarmAt,
                 alarmPc, calls, returned, incarnation, campVars, failedCalls>>

\* ENGAGEMENT_QUEUE.send throws.
consumer_publishError ==
  /\ exp.pc = "publish"
  /\ exp' = OnSendError(exp)
  /\ Settle(exp.camp, exp'.outcome)
  /\ failedCalls' = IF exp'.outcome = "retry"
                    THEN failedCalls \cup {exp.call} ELSE failedCalls
  /\ response' = NoResponse
  /\ UNCHANGED <<now, storeVars, lastUsedAccounts, storage, disk, alarmAt,
                 alarmPc, calls, returned, incarnation, campVars,
                 engagementQueue>>

\* -------------------------------------------------------------- scheduler
\* The sequences that list every element of S once: the rows of a query
\* without ORDER BY.
Orderings(S) ==
  {q \in [1..Cardinality(S) -> S] : \A i, j \in 1..Cardinality(S) :
                                       q[i] = q[j] => i = j}

\* A listing that leaves the status filter out.
ListActiveCampaigns_All == Campaigns

\* SELECT id, ... FROM campaigns WHERE status = 'active' (lines 9-11).
ListActiveCampaigns == {c \in Campaigns : campStatus[c] = "active"}

IdleSched == [pc |-> "idle", run |-> 0, campaigns |-> <<>>, i |-> 0,
              published |-> <<>>,
              statusAtList |-> [c \in Campaigns |-> "none"]]

\* The cron trigger fires; the listing query returns (lines 9-13).
scheduled_list ==
  /\ sched.pc \in {"idle", "ok", "failed"}
  /\ sched.run < MaxRuns
  /\ \E rows \in Orderings(ListActiveCampaigns) :
       sched' = [pc |-> IF rows = <<>> THEN "ok" ELSE "send",
                 run |-> sched.run + 1, campaigns |-> rows, i |-> 1,
                 published |-> <<>>, statusAtList |-> campStatus]
  /\ UNCHANGED <<now, storeVars, allocVars, campVars, queueVars, expVars,
                 execVars, clickVars, apiVars>>

\* The cron trigger fires; the listing query throws: catch, rethrow
\* (lines 25-28).
scheduled_listError ==
  /\ sched.pc \in {"idle", "ok", "failed"}
  /\ sched.run < MaxRuns
  /\ sched' = [pc |-> "failed", run |-> sched.run + 1, campaigns |-> <<>>,
               i |-> 0, published |-> <<>>, statusAtList |-> campStatus]
  /\ UNCHANGED <<now, storeVars, allocVars, campVars, queueVars, expVars,
                 execVars, clickVars, apiVars>>

\* One turn of the loop of lines 16-23: the message of the campaign at
\* position i is sent; after the last one the run completes (line 24).
scheduled_send ==
  /\ sched.pc = "send"
  /\ LET message == [campaignId |-> sched.campaigns[sched.i]]
     IN /\ campaignQueue' = [campaignQueue EXCEPT ![message.campaignId] = @ + 1]
        /\ sched' = [sched EXCEPT
             !.published = Append(@, message),
             !.i = @ + 1,
             !.pc = IF sched.i = Len(sched.campaigns) THEN "ok" ELSE "send"]
  /\ UNCHANGED <<now, storeVars, allocVars, campVars, engagementQueue, expVars,
                 execVars, clickVars, apiVars>>

\* CAMPAIGN_QUEUE.send throws (line 21): catch, rethrow; the run has failed.
scheduled_sendError ==
  /\ sched.pc = "send"
  /\ sched' = [sched EXCEPT !.pc = "failed"]
  /\ UNCHANGED <<now, storeVars, allocVars, campVars, queueVars, expVars,
                 execVars, clickVars, apiVars>>

\* ----------------------------------------------- engagement consumer
ActionTypes == {"move_to_inbox", "open", "click", "reply"}

\* engagement_logs.gmail_account_id REFERENCES gmail_accounts(id): the row of
\* an account that has no row is refused.
ForeignKeyHolds(a) == acctStatus[a] # "missing"

IdleExec == [pc |-> "idle", n |-> 0, msg |-> <<>>, outcome |-> "none",
             found |-> "none", raised |-> "none", row |-> <<>>,
             rows |-> <<>>, provider |-> <<>>, order |-> <<>>,
             failedCall |-> "none", precondition |-> "none",
             creds |-> "none", batch |-> <<>>, campaign |-> "none"]

\* logEngagement(env, campaignId, gmailAccountId, actionType, status,
\* errorMessage, subject) of the message at hand (lines 214-226).
LogRow(e, status, errorMessage, subject) ==
  [campaign_id |-> e.msg.campaignId,
   gmail_account_id |-> e.msg.gmailAccountId,
   action_type |-> e.msg.actionType,
   target_email_subject |-> subject,
   status |-> status, error_message |-> errorMessage]

\* An insert that replaces the rows of the table by the new one.
logEngagement_Replace(rows, row) == <<row>>

\* INSERT INTO engagement_logs (...) VALUES (...) (lines 223-225): the table
\* after the insert.
logEngagement(rows, row) == Append(rows, row)

\* An awaited call throws: control passes to the catch of line 78.
Raise(e, error) == [e EXCEPT !.pc = "catch", !.raised = error]

\* message.ack() with nothing left to await.
Ack(e) == [e EXCEPT !.pc = "done", !.outcome = "ack",
                    !.order = Append(@, "ack")]

\* A producer sends an engagement message; the queue holds fewer than cap.
engagementQueue_sendWithin(msg, cap) ==
  /\ Len(engagementQueue) < cap
  /\ engagementQueue' = Append(engagementQueue, msg)
  /\ UNCHANGED <<now, storeVars, allocVars, campVars, campaignQueue, expVars,
                 schedVars, clickVars, apiVars, execVars>>

\* A producer sends an engagement message.
engagementQueue_send(msg) == engagementQueue_sendWithin(msg, MaxMsgs)

\* The credentials of an account pass their expiry_date.
ExpireCredentials(a) ==
  /\ ~acctExpired[a]
  /\ acctExpired' = [acctExpired EXCEPT ![a] = TRUE]
  /\ UNCHANGED <<now, storeVars, allocVars, campVars, queueVars, expVars,
                 schedVars, clickVars, apiVars, log, exec>>

\* The runtime calls queue() with a batch of the first b messages of the
\* queue (line 19); the loop takes up the first of them (lines 22-24).  The
\* field campaign notes the status the campaign of the message has at that
\* moment; the handler does not read it.
engagement_deliver(b) ==
  /\ exec.pc \in {"idle", "done"}
  /\ exec.batch = <<>>
  /\ exec.n < MaxAttempts
  /\ b \in 1..Len(engagementQueue)
  /\ exec' = [IdleExec EXCEPT !.pc = "select", !.n = exec.n + 1,
                              !.msg = Head(engagementQueue),
                              !.batch = SubSeq(engagementQueue, 2, b),
                              !.campaign = campStatus[Head(engagementQueue).campaignId]]
  /\ engagementQueue' = SubSeq(engagementQueue, b + 1, Len(engagementQueue))
  /\ UNCHANGED <<now, storeVars, allocVars, campVars, campaignQueue, expVars,
                 schedVars, clickVars, apiVars, acctExpired, log>>

\* A batch of one message is delivered and taken up (lines 22-24).
engagement_receive == engagement_deliver(1)

\* The for loop of line 22 goes on to the next message of the batch, after
\* the ack, the continue or the retry of the message before it.
engagement_next ==
  /\ exec.pc = "done"
  /\ exec.batch # <<>>
  /\ exec.n < MaxAttempts
  /\ exec' = [IdleExec EXCEPT !.pc = "select", !.n = exec.n + 1,
                              !.msg = Head(exec.batch),
                              !.batch = Tail(exec.batch),
                              !.campaign = campStatus[Head(exec.batch).campaignId]]
  /\ UNCHANGED <<now, storeVars, allocVars, campVars, queueVars, expVars,
                 schedVars, clickVars, apiVars, acctExpired, log>>

\* A lookup that yields the account only while the campaign of the message
\* is active.
AccountLookup_ActiveCampaign(msg) ==
  IF acctStatus[msg.gmailAccountId] = "active" /\ campStatus[msg.campaignId] = "active"
  THEN "row" ELSE "null"

\* SELECT * FROM gmail_accounts WHERE id = ? AND status = 'active', .first()
\* (lines 27-29).
AccountLookup(msg) ==
  IF acctStatus[msg.gmailAccountId] = "active" THEN "row" ELSE "null"

\* SELECT * FROM gmail_accounts WHERE id = ? AND status = 'active' returns
\* (lines 27-29); without a row the failed row is to be logged (lines 31-33).
engagement_select ==
  /\ exec.pc = "select"
  /\ exec' = IF AccountLookup(exec.msg) = "row"
             THEN [exec EXCEPT !.found = "yes",
                     !.creds = IF acctExpired[exec.msg.gmailAccountId]
                               THEN "expired" ELSE "valid",
                     !.pc = IF acctExpired[exec.msg.gmailAccountId]
                            THEN "refresh" ELSE "list"]
             ELSE [exec EXCEPT !.found = "no", !.pc = "insert",
                     !.row = LogRow(exec, "failed", "Account not available",
                                    "null")]
  /\ UNCHANGED <<now, storeVars, allocVars, campVars, queueVars, expVars,
                 schedVars, clickVars, apiVars, acctExpired, log>>

\* A statement on the store throws: the SELECT of line 27, the UPDATE of the
\* credentials (line 59) or the UPDATE of last_used_at (line 73).
engagement_storeError ==
  /\ exec.pc \in {"select", "saveCreds", "touch"}
  /\ exec' = Raise(exec, "D1_ERROR")
  /\ UNCHANGED <<now, storeVars, allocVars, campVars, queueVars, expVars,
                 schedVars, clickVars, apiVars, acctExpired, log>>

\* The row prepared by logEngagement is inserted.  Where the insert is the
\* last statement before message.ack() (line 34) the message is acknowledged;
\* inside performEngagementAction the function returns and line 73 follows.
engagement_insert ==
  /\ exec.pc = "insert"
  /\ ForeignKeyHolds(exec.msg.gmailAccountId)
  /\ log' = logEngagement(log, exec.row)
  /\ LET e == [exec EXCEPT !.rows = Append(@, exec.row),
                           !.order = Append(@, "log")]
     IN exec' = IF exec.found = "no" THEN Ack(e) ELSE [e EXCEPT !.pc = "touch"]
  /\ UNCHANGED <<now, storeVars, allocVars, campVars, queueVars, expVars,
                 schedVars, clickVars, apiVars, acctExpired>>

\* The insert throws: the store fails, or the row names an account that has
\* no row.
engagement_insertError ==
  /\ exec.pc = "insert"
  /\ exec' = Raise(exec, IF ForeignKeyHolds(exec.msg.gmailAccountId)
                         THEN "D1_ERROR"
                         ELSE "FOREIGN KEY constraint failed")
  /\ UNCHANGED <<now, storeVars, allocVars, campVars, queueVars, expVars,
                 schedVars, clickVars, apiVars, acctExpired, log>>

\* refreshAccessToken returns new credentials (lines 47-52).
engagement_refresh ==
  /\ exec.pc = "refresh"
  /\ exec' = [exec EXCEPT !.pc = "saveCreds", !.creds = "refreshed",
                          !.provider = Append(@, "refreshAccessToken")]
  /\ UNCHANGED <<now, storeVars, allocVars, campVars, queueVars, expVars,
                 schedVars, clickVars, apiVars, acctExpired, log>>

\* UPDATE gmail_accounts SET oauth_credentials (lines 57-59).
engagement_saveCreds ==
  /\ exec.pc = "saveCreds"
  /\ acctExpired' = [acctExpired EXCEPT ![exec.msg.gmailAccountId] = FALSE]
  /\ exec' = [exec EXCEPT !.pc = "list", !.creds = "stored"]
  /\ UNCHANGED <<now, storeVars, allocVars, campVars, queueVars, expVars,
                 schedVars, clickVars, apiVars, log>>

\* listMessages returns (lines 103-109): with no message of the sender the
\* failed row is logged and the function returns.
engagement_list ==
  /\ exec.pc = "list"
  /\ \E found \in BOOLEAN :
       exec' = IF found
               THEN [exec EXCEPT !.pc = "get",
                                 !.provider = Append(@, "listMessages")]
               ELSE [exec EXCEPT !.pc = "insert",
                                 !.provider = Append(@, "listMessages"),
                                 !.precondition = "No messages found",
                                 !.row = LogRow(exec, "failed",
                                                "No messages found", "null")]
  /\ UNCHANGED <<now, storeVars, allocVars, campVars, queueVars, expVars,
                 schedVars, clickVars, apiVars, acctExpired, log>>

\* getMessage returns (lines 116-117); for a click the body is inspected
\* (lines 134-154).
engagement_get ==
  /\ exec.pc = "get"
  /\ \E html \in {"none", "nolinks", "links"} :
       LET e == [exec EXCEPT !.provider = Append(@, "getMessage")]
       IN exec' =
            IF exec.msg.actionType # "click" \/ html = "links"
            THEN [e EXCEPT !.pc = "act"]
            ELSE [e EXCEPT !.pc = "insert",
                           !.precondition = IF html = "none"
                                            THEN "No HTML content"
                                            ELSE "No safe links found",
                           !.row = LogRow(exec, "failed",
                                     IF html = "none" THEN "No HTML content"
                                     ELSE "No safe links found", "subject")]
  /\ UNCHANGED <<now, storeVars, allocVars, campVars, queueVars, expVars,
                 schedVars, clickVars, apiVars, acctExpired, log>>

\* The call that carries the action out.
ActionCall(actionType) ==
  IF actionType \in {"move_to_inbox", "open"} THEN "modifyMessage"
  ELSE IF actionType = "reply" THEN "sendReply" ELSE "fetch"

\* modifyMessage, sendReply or the HEAD request returns (lines 122, 128,
\* 143, 160): the success row is logged.
engagement_act ==
  /\ exec.pc = "act"
  /\ exec' = [exec EXCEPT !.pc = "insert",
                          !.provider = Append(@, ActionCall(exec.msg.actionType)),
                          !.row = LogRow(exec, "success", "null", "subject")]
  /\ UNCHANGED <<now, storeVars, allocVars, campVars, queueVars, expVars,
                 schedVars, clickVars, apiVars, acctExpired, log>>

\* A call to the provider throws.  The HEAD request has a catch of its own
\* (lines 145-148) that logs the failed row; every other error propagates.
engagement_providerError ==
  /\ exec.pc \in {"refresh", "list", "get", "act"}
  /\ LET call == IF exec.pc = "refresh" THEN "refreshAccessToken"
                 ELSE IF exec.pc = "list" THEN "listMessages"
                 ELSE IF exec.pc = "get" THEN "getMessage"
                 ELSE ActionCall(exec.msg.actionType)
         e == [exec EXCEPT !.provider = Append(@, call),
                           !.failedCall = call]
     IN exec' = IF call = "fetch"
                THEN [e EXCEPT !.pc = "insert",
                               !.row = LogRow(exec, "failed",
                                              "Link click failed", "subject")]
                ELSE Raise(e, "PROVIDER_ERROR")
  /\ UNCHANGED <<now, storeVars, allocVars, campVars, queueVars, expVars,
                 schedVars, clickVars, apiVars, acctExpired, log>>

\* UPDATE gmail_accounts SET last_used_at (lines 72-74), then message.ack().
engagement_touch ==
  /\ exec.pc = "touch"
  /\ acctLastUsedAt' =
       IF acctStatus[exec.msg.gmailAccountId] # "missing"
       THEN [acctLastUsedAt EXCEPT ![exec.msg.gmailAccountId] = Some(now)]
       ELSE acctLastUsedAt
  /\ exec' = Ack(exec)
  /\ UNCHANGED <<now, acctStatus, allocVars, campVars, queueVars, expVars,
                 schedVars, clickVars, apiVars, acctExpired, log>>

\* The catch block inserts the failed row with the error text (lines 80-87).
engagement_catch ==
  /\ exec.pc = "catch"
  /\ ForeignKeyHolds(exec.msg.gmailAccountId)
  /\ LET row == LogRow(exec, "failed", exec.raised, "null")
     IN /\ log' = logEngagement(log, row)
        /\ exec' = [exec EXCEPT !.pc = "retry", !.rows = Append(@, row),
                                !.order = Append(@, "log")]
  /\ UNCHANGED <<now, storeVars, allocVars, campVars, queueVars, expVars,
                 schedVars, clickVars, apiVars, acctExpired>>

\* The insert of the catch block throws: no row is written, line 88 is not
\* reached and the error leaves queue().  The invocation is over; the runtime
\* delivers again every message of the batch that was neither acknowledged
\* nor retried: the one at hand and those the loop had not come to.
engagement_catchError ==
  /\ exec.pc = "catch"
  /\ exec' = [exec EXCEPT !.pc = "done", !.batch = <<>>]
  /\ engagementQueue' = (engagementQueue \o <<exec.msg>>) \o exec.batch
  /\ UNCHANGED <<now, storeVars, allocVars, campVars, campaignQueue, expVars,
                 schedVars, clickVars, apiVars, acctExpired, log>>

\* message.retry() (line 88): the message is delivered again.
engagement_retry ==
  /\ exec.pc = "retry"
  /\ exec' = [exec EXCEPT !.pc = "done", !.outcome = "retry",
                          !.order = Append(@, "retry")]
  /\ engagementQueue' = Append(engagementQueue, exec.msg)
  /\ UNCHANGED <<now, storeVars, allocVars, campVars, campaignQueue, expVars,
                 schedVars, clickVars, apiVars, acctExpired, log>>

\* ----------------------------------------------------------- link filtering
\* Strings are sequences of characters.
UpperCase == <<"A", "B", "C", "D", "E", "F", "G", "H", "I", "J", "K", "L", "M",
               "N", "O", "P", "Q", "R", "S", "T", "U", "V", "W", "X", "Y", "Z">>
LowerCase == <<"a", "b", "c", "d", "e", "f", "g", "h", "i", "j", "k", "l", "m",
               "n", "o", "p", "q", "r", "s", "t", "u", "v", "w", "x", "y", "z">>

\* String.prototype.toLowerCase, on the characters of the links.
toLowerCase(str) ==
  [i \in 1..Len(str) |->
     IF \E n \in 1..Len(UpperCase) : UpperCase[n] = str[i]
     THEN LowerCase[CHOOSE n \in 1..Len(UpperCase) : UpperCase[n] = str[i]]
     ELSE str[i]]

\* String.prototype.includes.
includes(str, keyword) ==
  \E i \in 0..(Len(str) - Len(keyword)) :
    SubSeq(str, i + 1, i + Len(keyword)) = keyword

\* unsubscribeKeywords (line 165).
unsubscribeKeywords ==
  << <<"u", "n", "s", "u", "b", "s", "c", "r", "i", "b", "e">>,
     <<"o", "p", "t", "-", "o", "u", "t">>,
     <<"o", "p", "t", "o", "u", "t">>,
     <<"r", "e", "m", "o", "v", "e">>,
     <<"m", "a", "n", "a", "g", "e", "-",
       "p", "r", "e", "f", "e", "r", "e", "n", "c", "e", "s">> >>

\* The filter comparing the link as written.
filterUnsubscribeLinks_CaseSensitive(links) ==
  LET keep(link) ==
        ~\E n \in 1..Len(unsubscribeKeywords) :
            includes(link, unsubscribeKeywords[n])
  IN SelectSeq(links, keep)

\* filterUnsubscribeLinks (lines 164-171): links.filter keeps the order.
filterUnsubscribeLinks(links) ==
  LET keep(link) ==
        LET lowerLink == toLowerCase(link)
        IN ~\E n \in 1..Len(unsubscribeKeywords) :
              includes(lowerLink, unsubscribeKeywords[n])
  IN SelectSeq(links, keep)

\* The links a message may carry.
Base == <<"h", "t", "t", "p", "s", ":", "/", "/", "x", "/">>
LinkPool ==
  { Base \o <<"v", "i", "e", "w">>,
    Base \o <<"u", "n", "s", "u", "b", "s", "c", "r", "i", "b", "e">>,
    Base \o <<"U", "n", "S", "u", "b", "s", "c", "r", "i", "b", "e">>,
    Base \o <<"o", "p", "t", "-", "o", "u", "t">>,
    Base \o <<"o", "p", "t", "o", "u", "t">>,
    Base \o <<"o", "p", "t">>,
    Base \o <<"R", "E", "M", "O", "V", "E", "?", "i", "d">>,
    Base \o <<"m", "a", "n", "a", "g", "e", "-",
              "p", "r", "e", "f", "e", "r", "e", "n", "c", "e", "s">> }

LinkLists == UNION {[1..n -> LinkPool] : n \in 0..MaxLinks}

IdleClick == [pc |-> "idle", links |-> <<>>, safeLinks |-> <<>>]

\* extractLinks(htmlContent) has returned the links of the message (line 137
\* of the engagement consumer).
click_extract ==
  /\ click.pc = "idle"
  /\ \E links \in LinkLists :
       click' = [pc |-> "extracted", links |-> links, safeLinks |-> <<>>]
  /\ UNCHANGED <<now, storeVars, allocVars, campVars, queueVars, expVars,
                 schedVars, execVars, apiVars>>

\* const safeLinks = filterUnsubscribeLinks(links) (line 138).
click_filter ==
  /\ click.pc = "extracted"
  /\ click' = [click EXCEPT !.pc = "filtered",
                            !.safeLinks = filterUnsubscribeLinks(click.links)]
  /\ UNCHANGED <<now, storeVars, allocVars, campVars, queueVars, expVars,
                 schedVars, execVars, apiVars>>

\* ------------------------------------------------------------ API worker
\* The keys generateApiKey may return.  Keys are opaque and a key is returned
\* once: the n-th key issued is called n.
Keys == 1..MaxClients
UnusedKeys == {key \in Keys : apiKeys[key] = 0}
generateApiKey == CHOOSE key \in UnusedKeys : \A k \in UnusedKeys : key <= k

\* The Authorization header of a request: absent (or not a Bearer one), or
\* "Bearer <key>".
Auths == {None} \cup {Some(key) : key \in Keys}

IdleApi == [op |-> "none", auth |-> None, valid |-> TRUE, clientId |-> 0,
            camp |-> 0, status |-> 0, rows |-> {}, report |-> None,
            newClientId |-> 0, apiKey |-> None]

\* The middleware of lines 9-27: the clientId the request runs as, 0 when the
\* request is answered 401.
Authenticate(auth) == IF auth = None THEN 0 ELSE apiKeys[TheValue(auth)]

\* The response under construction for a request.
Request(op, auth, c) ==
  [IdleApi EXCEPT !.op = op, !.auth = auth, !.camp = c,
                  !.clientId = Authenticate(auth)]

Status(r, code) == [r EXCEPT !.status = code]

\* A row of campaigns as SELECT * returns it.
CampaignRow(c) ==
  [id |-> c, client_id |-> campOwner[c], pool_size |-> campPoolSize[c],
   engagement_settings |-> campSettings[c], status |-> campStatus[c]]

\* WHERE id = ? with no test of the owner.
OwnCampaign_AnyClient(c, clientId) == campStatus[c] # "missing"

\* WHERE id = ? AND client_id = ? (lines 118, 177, 193, 210).
OwnCampaign(c, clientId) ==
  campStatus[c] # "missing" /\ campOwner[c] = clientId

\* defaultSettings (lines 81-86), in thousandths.
defaultSettings == [move_to_inbox_rate |-> 900, open_rate |-> 800,
                    click_rate |-> 200, reply_rate |-> 50]

\* An operator inserts a row of clients and writes a key for it into API_KEYS
\* by hand.
operator_provision ==
  /\ clients < MaxClients
  /\ UnusedKeys # {}
  /\ clients' = clients + 1
  /\ apiKeys' = [apiKeys EXCEPT ![generateApiKey] = clients + 1]
  /\ apiResp' = IdleApi
  /\ UNCHANGED <<campVars, campOwner, now, storeVars, allocVars, queueVars, expVars,
                 schedVars, execVars, clickVars>>

\* POST /api/clients (lines 35-69) behind the middleware of lines 9-27.
\* valid: the body carries a name and an email.
api_registerClient(auth, valid) ==
  LET r == [Request("registerClient", auth, 0) EXCEPT !.valid = valid] IN
  /\ IF r.clientId = 0
     THEN /\ apiResp' = Status(r, 401)
          /\ UNCHANGED <<clients, apiKeys>>
     ELSE IF ~valid
     THEN /\ apiResp' = Status(r, 400)
          /\ UNCHANGED <<clients, apiKeys>>
     ELSE \/ /\ apiResp' = Status(r, 500)
             /\ UNCHANGED <<clients, apiKeys>>
          \/ /\ clients < MaxClients
             /\ clients' = clients + 1
             /\ \/ /\ apiResp' = Status(r, 500)
                   /\ UNCHANGED apiKeys
                \/ /\ UnusedKeys # {}
                   /\ apiKeys' = [apiKeys EXCEPT
                                    ![generateApiKey] = clients + 1]
                   /\ apiResp' = [Status(r, 201) EXCEPT
                                    !.newClientId = clients + 1,
                                    !.apiKey = Some(generateApiKey)]
  /\ UNCHANGED <<campVars, campOwner, now, storeVars, allocVars, queueVars, expVars,
                 schedVars, execVars, clickVars>>

\* The id the next INSERT INTO campaigns gets.
NextCampaignId == Cardinality({c \in Campaigns : campStatus[c] # "missing"}) + 1

\* POST /api/campaigns (lines 72-109).  valid: senderEmail and poolSize are
\* given; given: the body carries engagementSettings.
api_createCampaign(auth, valid, poolSize, given, engagementSettings) ==
  LET r == [Request("createCampaign", auth, 0) EXCEPT !.valid = valid] IN
  /\ IF r.clientId = 0
     THEN /\ apiResp' = Status(r, 401)
          /\ UNCHANGED <<campVars, campOwner>>
     ELSE IF ~valid
     THEN /\ apiResp' = Status(r, 400)
          /\ UNCHANGED <<campVars, campOwner>>
     ELSE \/ /\ apiResp' = Status(r, 500)
             /\ UNCHANGED <<campVars, campOwner>>
          \/ /\ NextCampaignId \in Campaigns
             /\ LET c == NextCampaignId
                    settings == IF given THEN engagementSettings
                                ELSE defaultSettings
                IN /\ campOwner' = [campOwner EXCEPT ![c] = r.clientId]
                   /\ campPoolSize' = [campPoolSize EXCEPT ![c] = poolSize]
                   /\ campSettings' = [campSettings EXCEPT ![c] = settings]
                   /\ campStatus' = [campStatus EXCEPT ![c] = "active"]
                   /\ apiResp' = [Status(r, 201) EXCEPT !.camp = c]
  /\ UNCHANGED <<clients, apiKeys, now, storeVars, allocVars, queueVars, expVars,
                 schedVars, execVars, clickVars>>

\* GET /api/campaigns/:id (lines 112-129).
api_getCampaign(auth, c) ==
  LET r == Request("getCampaign", auth, c) IN
  /\ apiResp' = IF r.clientId = 0 THEN Status(r, 401)
                ELSE IF ~OwnCampaign(c, r.clientId) THEN Status(r, 404)
                ELSE [Status(r, 200) EXCEPT !.rows = {CampaignRow(c)}]
  /\ UNCHANGED <<campVars, clients, campOwner, apiKeys, now, storeVars, allocVars, queueVars, expVars,
                 schedVars, execVars, clickVars>>

\* GET /api/campaigns (lines 132-144).
api_listCampaigns(auth) ==
  LET r == Request("listCampaigns", auth, 0) IN
  /\ apiResp' = IF r.clientId = 0 THEN Status(r, 401)
                ELSE [Status(r, 200) EXCEPT !.rows =
                        {CampaignRow(c) : c \in
                           {d \in Campaigns : campStatus[d] # "missing"
                                              /\ campOwner[d] = r.clientId}}]
  /\ UNCHANGED <<campVars, clients, campOwner, apiKeys, now, storeVars, allocVars, queueVars, expVars,
                 schedVars, execVars, clickVars>>

\* PUT /api/campaigns/:id (lines 147-184); each field of the body is given or
\* undefined.
api_updateCampaign(auth, c, poolSize, engagementSettings, status) ==
  LET r == Request("updateCampaign", auth, c) IN
  /\ IF r.clientId = 0
     THEN /\ apiResp' = Status(r, 401)
          /\ UNCHANGED campVars
     ELSE IF poolSize = None /\ engagementSettings = None /\ status = None
     THEN /\ apiResp' = Status(r, 400)
          /\ UNCHANGED campVars
     ELSE /\ apiResp' = Status(r, 200)
          /\ IF OwnCampaign(c, r.clientId)
             THEN /\ campPoolSize' = IF poolSize = None THEN campPoolSize
                       ELSE [campPoolSize EXCEPT ![c] = TheValue(poolSize)]
                  /\ campSettings' = IF engagementSettings = None
                       THEN campSettings
                       ELSE [campSettings EXCEPT
                               ![c] = TheValue(engagementSettings)]
                  /\ campStatus' = IF status = None THEN campStatus
                       ELSE [campStatus EXCEPT ![c] = TheValue(status)]
             ELSE UNCHANGED campVars
  /\ UNCHANGED <<clients, campOwner, apiKeys, now, storeVars, allocVars, queueVars, expVars,
                 schedVars, execVars, clickVars>>

\* DELETE /api/campaigns/:id (lines 187-200).
api_deleteCampaign(auth, c) ==
  LET r == Request("deleteCampaign", auth, c) IN
  /\ IF r.clientId = 0
     THEN /\ apiResp' = Status(r, 401)
          /\ UNCHANGED campVars
     ELSE /\ apiResp' = Status(r, 200)
          /\ campStatus' = IF OwnCampaign(c, r.clientId)
                           THEN [campStatus EXCEPT ![c] = "completed"]
                           ELSE campStatus
          /\ UNCHANGED <<campPoolSize, campSettings>>
  /\ UNCHANGED <<clients, campOwner, apiKeys, now, storeVars, allocVars, queueVars, expVars,
                 schedVars, execVars, clickVars>>

\* The statistics of lines 218-247 over the rows of engagement_logs of
\* campaign c; successRate is kept as the pair it is the quotient of.
Report(c) ==
  LET mine == {i \in 1..Len(log) : log[i].campaign_id = c}
      count(t, st) == Cardinality({i \in mine : log[i].action_type = t
                                                /\ log[i].status = st})
  IN [campaignId |-> c,
      totalActions |-> Cardinality(mine),
      successfulActions |->
        Cardinality({i \in mine : log[i].status = "success"}),
      actionBreakdown |->
        [t \in {log[i].action_type : i \in mine} |->
           [success |-> count(t, "success"), failed |-> count(t, "failed")]]]

\* GET /api/reports/:campaignId (lines 203-251).
api_report(auth, c) ==
  LET r == Request("report", auth, c) IN
  /\ apiResp' = IF r.clientId = 0 THEN Status(r, 401)
                ELSE IF ~OwnCampaign(c, r.clientId) THEN Status(r, 404)
                ELSE [Status(r, 200) EXCEPT !.report = Some(Report(c))]
  /\ UNCHANGED <<campVars, clients, campOwner, apiKeys, now, storeVars, allocVars, queueVars, expVars,
                 schedVars, execVars, clickVars>>

AccountStatuses == {"active", "needs_reauth", "disabled", "missing"}

Init ==
  /\ now = 1
  /\ acctStatus = [a \in Accounts |->
                     IF a \in InitialAccounts THEN "active" ELSE "missing"]
  /\ acctLastUsedAt = [a \in Accounts |-> None]
  /\ lastUsedAccounts = [c \in Campaigns |-> <<>>]
  /\ storage = [c \in Campaigns |-> None]
  /\ disk = [c \in Campaigns |-> None]
  /\ alarmAt = [c \in Campaigns |-> None]
  /\ alarmPc = [c \in Campaigns |-> "idle"]
  /\ calls = [k \in 1..MaxReq |-> IdleCall]
  /\ response = NoResponse
  /\ returned = [c \in Campaigns |-> {}]
  /\ incarnation = [c \in Campaigns |-> 0]
  /\ campStatus = [c \in Campaigns |-> "active"]
  /\ campPoolSize = [c \in Campaigns |-> MaxPool]
  /\ campSettings = [c \in Campaigns |-> OpenOnly]
  /\ campaignQueue = [c \in Campaigns |-> 0]
  /\ engagementQueue = <<>>
  /\ exp = IdleExp
  /\ failedCalls = {}
  /\ sched = IdleSched
  /\ acctExpired = [a \in Accounts |-> FALSE]
  /\ log = <<>>
  /\ exec = IdleExec
  /\ click = IdleClick
  /\ clients = Cardinality(Campaigns)
  /\ campOwner = [c \in Campaigns |-> c]
  /\ apiKeys = [key \in Keys |-> 0]
  /\ apiResp = IdleApi

\* One allocator instance; requests and sweeps run to completion one after
\* another.
NextSeq ==
  \/ /\ Tick
     /\ UNCHANGED <<campVars, queueVars, expVars, schedVars, clickVars, apiVars, execVars>>
  \/ /\ \E k \in 1..MaxReq, p \in {1, MaxPool} :
          ~Busy(1) /\ selectAccounts_load(k, 1, p)
     /\ UNCHANGED <<campVars, queueVars, expVars, schedVars, clickVars, apiVars, execVars>>
  \/ /\ \E k \in 1..MaxReq : selectAccounts_select(k)
     /\ UNCHANGED <<campVars, queueVars, expVars, schedVars, clickVars, apiVars, execVars>>
  \/ /\ \E k \in 1..MaxReq : selectAccounts_queryError(k)
     /\ UNCHANGED <<campVars, queueVars, expVars, schedVars, clickVars, apiVars, execVars>>
  \/ /\ \E k \in 1..MaxReq : selectAccounts_respond(k)
     /\ UNCHANGED <<campVars, queueVars, expVars, schedVars, clickVars, apiVars, execVars>>
  \/ /\ \E k \in 1..MaxReq : selectAccounts_saveError(k)
     /\ UNCHANGED <<campVars, queueVars, expVars, schedVars, clickVars, apiVars, execVars>>
  \/ /\ ~Busy(1) /\ alarm_sweep(1)
     /\ UNCHANGED <<campVars, queueVars, expVars, schedVars, clickVars, apiVars, execVars>>
  \/ /\ alarm_reschedule(1)
     /\ UNCHANGED <<campVars, queueVars, expVars, schedVars, clickVars, apiVars, execVars>>

SpecSeq == Init /\ [][NextSeq]_vars

\* One allocator instance serving requests one after another; the instance
\* may restart between or during them.
NextRestart ==
  \/ /\ Tick
     /\ UNCHANGED <<campVars, queueVars, expVars, schedVars, clickVars, apiVars, execVars>>
  \/ /\ \E k \in 1..MaxReq, p \in {1, MaxPool} :
          ~Busy(1) /\ selectAccounts_load(k, 1, p)
     /\ UNCHANGED <<campVars, queueVars, expVars, schedVars, clickVars, apiVars, execVars>>
  \/ /\ \E k \in 1..MaxReq : selectAccounts_select(k)
     /\ UNCHANGED <<campVars, queueVars, expVars, schedVars, clickVars, apiVars, execVars>>
  \/ /\ \E k \in 1..MaxReq : selectAccounts_queryError(k)
     /\ UNCHANGED <<campVars, queueVars, expVars, schedVars, clickVars, apiVars, execVars>>
  \/ /\ \E k \in 1..MaxReq : selectAccounts_respond(k)
     /\ UNCHANGED <<campVars, queueVars, expVars, schedVars, clickVars, apiVars, execVars>>
  \/ /\ \E k \in 1..MaxReq : selectAccounts_saveError(k)
     /\ UNCHANGED <<campVars, queueVars, expVars, schedVars, clickVars, apiVars, execVars>>
  \/ /\ Restart(1)
     /\ UNCHANGED <<campVars, queueVars, expVars, schedVars, clickVars, apiVars, execVars>>

SpecRestart == Init /\ [][NextRestart]_vars

\* One allocator instance serving requests one after another while the pool
\* accounts change status in the store.
NextPool ==
  \/ /\ Tick
     /\ UNCHANGED <<campVars, queueVars, expVars, schedVars, clickVars, apiVars, execVars>>
  \/ /\ \E a \in InitialAccounts, s \in {"active", "disabled"} : SetAccountStatus(a, s)
     /\ UNCHANGED <<campVars, queueVars, expVars, schedVars, clickVars, apiVars, execVars>>
  \/ /\ \E k \in 1..MaxReq, p \in 1..MaxPool :
          ~Busy(1) /\ selectAccounts_load(k, 1, p)
     /\ UNCHANGED <<campVars, queueVars, expVars, schedVars, clickVars, apiVars, execVars>>
  \/ /\ \E k \in 1..MaxReq : selectAccounts_select(k)
     /\ UNCHANGED <<campVars, queueVars, expVars, schedVars, clickVars, apiVars, execVars>>
  \/ /\ \E k \in 1..MaxReq : selectAccounts_queryError(k)
     /\ UNCHANGED <<campVars, queueVars, expVars, schedVars, clickVars, apiVars, execVars>>
  \/ /\ \E k \in 1..MaxReq : selectAccounts_respond(k)
     /\ UNCHANGED <<campVars, queueVars, expVars, schedVars, clickVars, apiVars, execVars>>
  \/ /\ \E k \in 1..MaxReq : selectAccounts_saveError(k)
     /\ UNCHANGED <<campVars, queueVars, expVars, schedVars, clickVars, apiVars, execVars>>

SpecPool == Init /\ [][NextPool]_vars

\* One allocator instance; the requests are in flight at once and interleave
\* at their awaits; the instance may restart.
NextConc ==
  \/ /\ TickHours
     /\ UNCHANGED <<campVars, queueVars, expVars, schedVars, clickVars, apiVars, execVars>>
  \/ /\ \E k \in 1..MaxReq, p \in {1, MaxPool} : selectAccounts_load(k, 1, p)
     /\ UNCHANGED <<campVars, queueVars, expVars, schedVars, clickVars, apiVars, execVars>>
  \/ /\ \E k \in 1..MaxReq : selectAccounts_select(k)
     /\ UNCHANGED <<campVars, queueVars, expVars, schedVars, clickVars, apiVars, execVars>>
  \/ /\ \E k \in 1..MaxReq : selectAccounts_queryError(k)
     /\ UNCHANGED <<campVars, queueVars, expVars, schedVars, clickVars, apiVars, execVars>>
  \/ /\ \E k \in 1..MaxReq : selectAccounts_respond(k)
     /\ UNCHANGED <<campVars, queueVars, expVars, schedVars, clickVars, apiVars, execVars>>
  \/ /\ \E k \in 1..MaxReq : selectAccounts_saveError(k)
     /\ UNCHANGED <<campVars, queueVars, expVars, schedVars, clickVars, apiVars, execVars>>
  \/ /\ Restart(1)
     /\ UNCHANGED <<campVars, queueVars, expVars, schedVars, clickVars, apiVars, execVars>>

SpecConc == Init /\ [][NextConc]_vars

\* The campaign consumer expanding the messages of campaign 1 through the
\* allocator of that campaign, one message at a time.
NextExpand ==
  \/ /\ TickHours
     /\ UNCHANGED <<campVars, queueVars, expVars, schedVars, clickVars, apiVars, execVars>>
  \/ /\ campaignQueue_send(1)
     /\ UNCHANGED <<schedVars, clickVars, apiVars, execVars>>
  \/ /\ \E st \in {"active", "paused", "missing"} : SetCampaignStatus(1, st)
     /\ UNCHANGED <<schedVars, clickVars, apiVars, execVars>>
  \/ /\ \E settings \in {OpenOnly, HalfOpen} :
          UpdateCampaign(1, campPoolSize[1], settings)
     /\ UNCHANGED <<schedVars, clickVars, apiVars, execVars>>
  \/ /\ \E k \in 1..MaxReq : consumer_receive(1, k)
     /\ UNCHANGED <<schedVars, clickVars, apiVars, execVars>>
  \/ /\ consumer_lookupError(1)
     /\ UNCHANGED <<schedVars, clickVars, apiVars, execVars>>
  \/ /\ consumer_request
     /\ UNCHANGED <<schedVars, clickVars, apiVars, execVars>>
  \/ /\ \E k \in 1..MaxReq : selectAccounts_select(k)
     /\ exp' = Received(exp, calls', response')
     /\ UNCHANGED <<campVars, queueVars, failedCalls, schedVars, clickVars, apiVars, execVars>>
  \/ /\ \E k \in 1..MaxReq : selectAccounts_queryError(k)
     /\ exp' = Received(exp, calls', response')
     /\ UNCHANGED <<campVars, queueVars, failedCalls, schedVars, clickVars, apiVars, execVars>>
  \/ /\ \E k \in 1..MaxReq : selectAccounts_respond(k)
     /\ exp' = Received(exp, calls', response')
     /\ UNCHANGED <<campVars, queueVars, failedCalls, schedVars, clickVars, apiVars, execVars>>
  \/ /\ \E k \in 1..MaxReq : selectAccounts_saveError(k)
     /\ exp' = Received(exp, calls', response')
     /\ UNCHANGED <<campVars, queueVars, failedCalls, schedVars, clickVars, apiVars, execVars>>
  \/ /\ consumer_expand
     /\ UNCHANGED <<schedVars, clickVars, apiVars, execVars>>
  \/ /\ consumer_publish
     /\ UNCHANGED <<schedVars, clickVars, apiVars, execVars>>
  \/ /\ consumer_publishError
     /\ UNCHANGED <<schedVars, clickVars, apiVars, execVars>>

SpecExpand == Init /\ [][NextExpand]_vars

\* The engagement consumer handles messages one at a time.  The account
\* changes status, loses its row (unless a log row refers to it) or sees its
\* credentials expire before the SELECT of a message; messages are sent
\* between two messages.
EngagementMessages ==
  [campaignId : {1}, gmailAccountId : {7}, senderEmail : {senderEmail[1]},
   actionType : ActionTypes, delaySeconds : {0}]

NextExec ==
  \/ /\ exec.pc \in {"idle", "done"}
     /\ \E msg \in EngagementMessages : engagementQueue_send(msg)
  \/ /\ exec.pc \in {"idle", "select"}
     /\ \E s \in AccountStatuses :
          /\ s = "missing" => \A i \in 1..Len(log) : log[i].gmail_account_id # 7
          /\ SetAccountStatus(7, s)
     /\ UNCHANGED <<campVars, queueVars, expVars, schedVars, clickVars, apiVars, execVars>>
  \/ /\ exec.pc \in {"idle", "select"}
     /\ ExpireCredentials(7)
  \/ engagement_receive
  \/ engagement_select
  \/ engagement_storeError
  \/ engagement_insert
  \/ engagement_insertError
  \/ engagement_refresh
  \/ engagement_saveCreds
  \/ engagement_list
  \/ engagement_get
  \/ engagement_act
  \/ engagement_providerError
  \/ engagement_touch
  \/ engagement_catch
  \/ engagement_catchError
  \/ engagement_retry

SpecExec == Init /\ [][NextExec]_vars

\* The engagement consumer is called with batches of up to MaxBatch messages
\* for the two accounts; the credentials of account 7 may expire before a
\* batch is delivered.
BatchMessages ==
  [campaignId : {1}, gmailAccountId : InitialAccounts,
   senderEmail : {senderEmail[1]}, actionType : {"open"}, delaySeconds : {0}]

NextBatch ==
  \/ /\ exec.pc = "idle"
     /\ \E msg \in BatchMessages : engagementQueue_sendWithin(msg, MaxBatch)
  \/ /\ exec.pc = "idle"
     /\ ExpireCredentials(7)
  \/ \E b \in 1..MaxBatch : engagement_deliver(b)
  \/ engagement_next
  \/ engagement_select
  \/ engagement_storeError
  \/ engagement_insert
  \/ engagement_insertError
  \/ engagement_refresh
  \/ engagement_saveCreds
  \/ engagement_list
  \/ engagement_get
  \/ engagement_act
  \/ engagement_providerError
  \/ engagement_touch
  \/ engagement_catch
  \/ engagement_catchError
  \/ engagement_retry

SpecBatch == Init /\ [][NextBatch]_vars

\* The engagement consumer handles the messages of campaign 1, published
\* while the campaign is active, one at a time for the active account 7; the
\* API pauses, resumes or completes the campaign before a message is taken
\* up, before the account is looked up, before the mailbox is listed and
\* before last_used_at is written.
StaleMessages == {msg \in EngagementMessages : msg.actionType \in {"open", "click"}}

NextStale ==
  \/ /\ exec.pc \in {"idle", "done"}
     /\ campStatus[1] = "active"
     /\ \E msg \in StaleMessages : engagementQueue_send(msg)
  \/ /\ exec.pc \in {"idle", "select", "list", "touch"}
     /\ \E st \in {"active", "paused", "completed"} : SetCampaignStatus(1, st)
     /\ UNCHANGED <<schedVars, clickVars, apiVars, execVars>>
  \/ /\ exec.pc \in {"idle", "select"}
     /\ ExpireCredentials(7)
  \/ engagement_receive
  \/ engagement_select
  \/ engagement_storeError
  \/ engagement_insert
  \/ engagement_insertError
  \/ engagement_refresh
  \/ engagement_saveCreds
  \/ engagement_list
  \/ engagement_get
  \/ engagement_act
  \/ engagement_providerError
  \/ engagement_touch
  \/ engagement_catch
  \/ engagement_catchError
  \/ engagement_retry

SpecStale == Init /\ [][NextStale]_vars

\* Math.random() over all its values, in thousandths.
RandomDraws == 0..999

\* The send of lines 66-75 for one sampled action of campaign c and account
\* a, the random number of line 74 being r; the queue keeps the last message.
consumer_send(c, a, actionType, r) ==
  /\ engagementQueue' = <<[campaignId |-> c, gmailAccountId |-> a,
                           senderEmail |-> senderEmail[c],
                           actionType |-> actionType,
                           delaySeconds |-> delaySeconds(r)]>>
  /\ UNCHANGED <<now, storeVars, allocVars, campVars, campaignQueue, expVars,
                 schedVars, clickVars, apiVars, execVars>>

\* Messages published with every value the random number of the delay can
\* take.
NextDelay ==
  \E r \in RandomDraws, actionType \in {"open", "reply"} :
    consumer_send(1, 7, actionType, r)

SpecDelay == Init /\ [][NextDelay]_vars

\* One expansion of a message of campaign 1 under every combination of rates
\* set before the message is taken up.
Rates == {0, 500, 1000}
AllSettings ==
  [move_to_inbox_rate : Rates, open_rate : Rates, click_rate : Rates,
   reply_rate : Rates]

NextSample ==
  \/ /\ exp.pc = "idle"
     /\ \E settings \in AllSettings :
          UpdateCampaign(1, campPoolSize[1], settings)
     /\ UNCHANGED <<schedVars, clickVars, apiVars, execVars>>
  \/ /\ campaignQueue_send(1)
     /\ UNCHANGED <<schedVars, clickVars, apiVars, execVars>>
  \/ /\ consumer_receive(1, 1)
     /\ UNCHANGED <<schedVars, clickVars, apiVars, execVars>>
  \/ /\ consumer_request
     /\ UNCHANGED <<schedVars, clickVars, apiVars, execVars>>
  \/ /\ selectAccounts_select(1)
     /\ exp' = Received(exp, calls', response')
     /\ UNCHANGED <<campVars, queueVars, failedCalls, schedVars, clickVars, apiVars, execVars>>
  \/ /\ selectAccounts_respond(1)
     /\ exp' = Received(exp, calls', response')
     /\ UNCHANGED <<campVars, queueVars, failedCalls, schedVars, clickVars, apiVars, execVars>>
  \/ /\ consumer_expand
     /\ UNCHANGED <<schedVars, clickVars, apiVars, execVars>>
  \/ /\ consumer_publish
     /\ UNCHANGED <<schedVars, clickVars, apiVars, execVars>>
  \/ /\ consumer_publishError
     /\ UNCHANGED <<schedVars, clickVars, apiVars, execVars>>

SpecSample == Init /\ [][NextSample]_vars

\* One allocator instance per campaign (the consumer addresses the instance
\* named after the campaign id); the requests of all campaigns run one after
\* another.
NextCross ==
  \/ /\ TickHours
     /\ UNCHANGED <<campVars, queueVars, expVars, schedVars, clickVars, apiVars, execVars>>
  \/ /\ \E k \in 1..MaxReq, c \in Campaigns, p \in {1, MaxPool} :
          (\A d \in Campaigns : ~Busy(d)) /\ selectAccounts_load(k, c, p)
     /\ UNCHANGED <<campVars, queueVars, expVars, schedVars, clickVars, apiVars, execVars>>
  \/ /\ \E k \in 1..MaxReq : selectAccounts_select(k)
     /\ UNCHANGED <<campVars, queueVars, expVars, schedVars, clickVars, apiVars, execVars>>
  \/ /\ \E k \in 1..MaxReq : selectAccounts_queryError(k)
     /\ UNCHANGED <<campVars, queueVars, expVars, schedVars, clickVars, apiVars, execVars>>
  \/ /\ \E k \in 1..MaxReq : selectAccounts_respond(k)
     /\ UNCHANGED <<campVars, queueVars, expVars, schedVars, clickVars, apiVars, execVars>>
  \/ /\ \E k \in 1..MaxReq : selectAccounts_saveError(k)
     /\ UNCHANGED <<campVars, queueVars, expVars, schedVars, clickVars, apiVars, execVars>>

SpecCross == Init /\ [][NextCross]_vars

\* The allocator instances of the two campaigns side by side: each instance
\* takes its requests and sweeps one after another, and the steps of one
\* instance interleave with those of the other.  The clock goes from the
\* start to an instant within the reuse interval and to one more than a day
\* later.
NextInstances ==
  \/ /\ \E t \in {minTimeBetweenUses, minTimeBetweenUses + dayInMs} : Advance(t)
     /\ UNCHANGED <<campVars, queueVars, expVars, schedVars, clickVars, apiVars, execVars>>
  \/ /\ \E k \in 1..MaxReq, c \in Campaigns :
          ~Busy(c) /\ selectAccounts_load(k, c, MaxPool)
     /\ UNCHANGED <<campVars, queueVars, expVars, schedVars, clickVars, apiVars, execVars>>
  \/ /\ \E k \in 1..MaxReq : selectAccounts_select(k)
     /\ UNCHANGED <<campVars, queueVars, expVars, schedVars, clickVars, apiVars, execVars>>
  \/ /\ \E k \in 1..MaxReq : selectAccounts_queryError(k)
     /\ UNCHANGED <<campVars, queueVars, expVars, schedVars, clickVars, apiVars, execVars>>
  \/ /\ \E k \in 1..MaxReq : selectAccounts_respond(k)
     /\ UNCHANGED <<campVars, queueVars, expVars, schedVars, clickVars, apiVars, execVars>>
  \/ /\ \E k \in 1..MaxReq : selectAccounts_saveError(k)
     /\ UNCHANGED <<campVars, queueVars, expVars, schedVars, clickVars, apiVars, execVars>>
  \/ /\ \E c \in Campaigns : ~Busy(c) /\ alarm_sweep(c)
     /\ UNCHANGED <<campVars, queueVars, expVars, schedVars, clickVars, apiVars, execVars>>
  \/ /\ \E c \in Campaigns : alarm_reschedule(c)
     /\ UNCHANGED <<campVars, queueVars, expVars, schedVars, clickVars, apiVars, execVars>>

SpecInstances == Init /\ [][NextInstances]_vars

\* One allocator instance serving requests one after another over a pool of
\* three accounts within one day: between requests the third row is inserted
\* by an operator and the engagement consumer stamps last_used_at of accounts
\* reserved earlier.
NextReserve ==
  \/ /\ TickHours
     /\ UNCHANGED <<campVars, queueVars, expVars, schedVars, clickVars, apiVars, execVars>>
  \/ /\ \E a \in Accounts \ InitialAccounts :
          ~Busy(1) /\ SetAccountStatus(a, "active")
     /\ UNCHANGED <<campVars, queueVars, expVars, schedVars, clickVars, apiVars, execVars>>
  \/ /\ \E a \in Accounts : ~Busy(1) /\ touchLastUsedAt(a)
     /\ UNCHANGED <<campVars, queueVars, expVars, schedVars, clickVars, apiVars, execVars>>
  \/ /\ \E k \in 1..MaxReq, p \in 1..MaxPool :
          ~Busy(1) /\ selectAccounts_load(k, 1, p)
     /\ UNCHANGED <<campVars, queueVars, expVars, schedVars, clickVars, apiVars, execVars>>
  \/ /\ \E k \in 1..MaxReq : selectAccounts_select(k)
     /\ UNCHANGED <<campVars, queueVars, expVars, schedVars, clickVars, apiVars, execVars>>
  \/ /\ \E k \in 1..MaxReq : selectAccounts_queryError(k)
     /\ UNCHANGED <<campVars, queueVars, expVars, schedVars, clickVars, apiVars, execVars>>
  \/ /\ \E k \in 1..MaxReq : selectAccounts_respond(k)
     /\ UNCHANGED <<campVars, queueVars, expVars, schedVars, clickVars, apiVars, execVars>>
  \/ /\ \E k \in 1..MaxReq : selectAccounts_saveError(k)
     /\ UNCHANGED <<campVars, queueVars, expVars, schedVars, clickVars, apiVars, execVars>>

SpecReserve == Init /\ [][NextReserve]_vars

\* A fresh deployment: no client, no campaign, no key in API_KEYS.
InitApi ==
  /\ now = 1
  /\ acctStatus = [a \in Accounts |->
                     IF a \in InitialAccounts THEN "active" ELSE "missing"]
  /\ acctLastUsedAt = [a \in Accounts |-> None]
  /\ lastUsedAccounts = [c \in Campaigns |-> <<>>]
  /\ storage = [c \in Campaigns |-> None]
  /\ disk = [c \in Campaigns |-> None]
  /\ alarmAt = [c \in Campaigns |-> None]
  /\ alarmPc = [c \in Campaigns |-> "idle"]
  /\ calls = [k \in 1..MaxReq |-> IdleCall]
  /\ response = NoResponse
  /\ returned = [c \in Campaigns |-> {}]
  /\ incarnation = [c \in Campaigns |-> 0]
  /\ campStatus = [c \in Campaigns |-> "missing"]
  /\ campPoolSize = [c \in Campaigns |-> 0]
  /\ campSettings = [c \in Campaigns |-> defaultSettings]
  /\ campaignQueue = [c \in Campaigns |-> 0]
  /\ engagementQueue = <<>>
  /\ exp = IdleExp
  /\ failedCalls = {}
  /\ sched = IdleSched
  /\ acctExpired = [a \in Accounts |-> FALSE]
  /\ log = <<>>
  /\ exec = IdleExec
  /\ click = IdleClick
  /\ clients = 0
  /\ campOwner = [c \in Campaigns |-> 0]
  /\ apiKeys = [key \in Keys |-> 0]
  /\ apiResp = IdleApi

\* The bodies of the PUT requests: empty, a status, a pool size with settings.
UpdateBodies ==
  { [poolSize |-> None, engagementSettings |-> None, status |-> None],
    [poolSize |-> None, engagementSettings |-> None, status |-> Some("paused")],
    [poolSize |-> Some(1), engagementSettings |-> Some(HalfOpen),
     status |-> None] }

\* The requests of the API worker, each handled to its response, and the
\* operator's provisioning of keys.
NextApi ==
  \/ operator_provision
  \/ \E auth \in Auths, valid \in BOOLEAN : api_registerClient(auth, valid)
  \/ \E auth \in Auths, valid, given \in BOOLEAN :
       api_createCampaign(auth, valid, MaxPool, given, OpenOnly)
  \/ \E auth \in Auths, c \in Campaigns : api_getCampaign(auth, c)
  \/ \E auth \in Auths : api_listCampaigns(auth)
  \/ \E auth \in Auths, c \in Campaigns, body \in UpdateBodies :
       api_updateCampaign(auth, c, body.poolSize, body.engagementSettings,
                          body.status)
  \/ \E auth \in Auths, c \in Campaigns : api_deleteCampaign(auth, c)
  \/ \E auth \in Auths, c \in Campaigns : api_report(auth, c)

SpecApi == InitApi /\ [][NextApi]_vars

\* The click branch of the engagement consumer on the links of one message.
NextClick ==
  \/ click_extract
  \/ click_filter

SpecClick == Init /\ [][NextClick]_vars

\* One allocator instance per campaign serving requests one after another,
\* with the runtime delivering the alarms that are due.  The runtime keeps
\* running whatever can run.
NextAlarm ==
  \/ /\ Tick
     /\ UNCHANGED <<campVars, queueVars, expVars, schedVars, clickVars, apiVars, execVars>>
  \/ /\ \E k \in 1..MaxReq, c \in Campaigns, p \in {1, MaxPool} :
          (\A d \in Campaigns : ~Busy(d)) /\ selectAccounts_load(k, c, p)
     /\ UNCHANGED <<campVars, queueVars, expVars, schedVars, clickVars, apiVars, execVars>>
  \/ /\ \E k \in 1..MaxReq : selectAccounts_select(k)
     /\ UNCHANGED <<campVars, queueVars, expVars, schedVars, clickVars, apiVars, execVars>>
  \/ /\ \E k \in 1..MaxReq : selectAccounts_queryError(k)
     /\ UNCHANGED <<campVars, queueVars, expVars, schedVars, clickVars, apiVars, execVars>>
  \/ /\ \E k \in 1..MaxReq : selectAccounts_respond(k)
     /\ UNCHANGED <<campVars, queueVars, expVars, schedVars, clickVars, apiVars, execVars>>
  \/ /\ \E k \in 1..MaxReq : selectAccounts_saveError(k)
     /\ UNCHANGED <<campVars, queueVars, expVars, schedVars, clickVars, apiVars, execVars>>
  \/ /\ \E c \in Campaigns :
          (\A k \in 1..MaxReq : ~InFlight(k)) /\ runtime_alarm(c)
     /\ UNCHANGED <<campVars, queueVars, expVars, schedVars, clickVars, apiVars, execVars>>

SpecAlarm == Init /\ [][NextAlarm]_vars /\ WF_vars(NextAlarm)

\* The scheduler runs while campaigns change status.
NextSched ==
  \/ /\ \E c \in Campaigns, st \in {"active", "paused", "completed"} :
          SetCampaignStatus(c, st)
     /\ UNCHANGED <<schedVars, clickVars, apiVars, execVars>>
  \/ scheduled_list
  \/ scheduled_listError
  \/ scheduled_send
  \/ scheduled_sendError

SpecSched == Init /\ [][NextSched]_vars

\* ===================================================================== claims
Abs(x) == IF x < 0 THEN 0 - x ELSE x

\* C1: for one campaign's allocator serving reserve calls one after another,
\* with sweeps in between, two returns of the same account by different calls
\* are stamped at least minTimeBetweenUses apart.
C1_NoDoubleAllocation ==
  \A c \in Campaigns : \A e1, e2 \in returned[c] :
    (e1.call # e2.call /\ e1.acc = e2.acc)
      => Abs(e2.at - e1.at) >= minTimeBetweenUses

\* C1 witness: an account returned again exactly one reuse interval later.
C1_Witness ==
  \E e1, e2 \in returned[1] :
    /\ e1.call # e2.call /\ e1.acc = e2.acc
    /\ e2.at - e1.at = minTimeBetweenUses

\* C2: with reserve calls in flight at once, the accounts picked by two calls
\* whose responses are pending, by a pending call and an answered one, or by
\* two answered ones, are disjoint unless the two calls are stamped at least
\* minTimeBetweenUses apart.
C2_NoDoubleAllocationConcurrent ==
  LET pending == {k \in 1..MaxReq : calls[k].pc = "save"}
      picks == UNION {returned[c] : c \in Campaigns} \cup
               UNION {{[call |-> k, acc |-> a, at |-> calls[k].at,
                        inc |-> incarnation[calls[k].camp]] :
                         a \in Range(calls[k].accountIds)} : k \in pending}
  IN \A e1, e2 \in picks :
       (e1.call # e2.call /\ e1.acc = e2.acc)
         => Abs(e2.at - e1.at) >= minTimeBetweenUses

\* C2 witness: two calls in flight at once, stamped with the same instant,
\* each about to return a different account.
C2_Witness ==
  /\ calls[1].pc = "save" /\ calls[2].pc = "save"
  /\ calls[1].at = calls[2].at
  /\ calls[1].accountIds = <<7>> /\ calls[2].accountIds = <<10>>

\* C3: a response carries at most poolSize identities, each of an account
\* that was active in the store when that call's query ran.
C3_UpperBoundAndActive ==
  response.status = "ok" =>
    /\ Len(response.accountIds) <= response.poolSize
    /\ Range(response.accountIds) \subseteq response.activeAtQuery

\* C3 witness: poolSize 2, account 7 disabled and never reserved, only 10 returned.
C3_Witness ==
  /\ response.status = "ok" /\ response.poolSize = 2
  /\ response.accountIds = <<10>>
  /\ response.activeAtQuery = {10}
  /\ acctStatus[7] = "disabled"
  /\ 7 \notin DOMAIN lastUsedAccounts[1]

\* C4: an account returned at T by one incarnation of the instance is not
\* returned by a later incarnation (fresh map, hydrated from the snapshot)
\* at a time before T + minTimeBetweenUses.
C4_SurvivesRestart ==
  \A c \in Campaigns : \A e1, e2 \in returned[c] :
    (e1.inc < e2.inc /\ e1.acc = e2.acc)
      => e2.at - e1.at >= minTimeBetweenUses

\* C4 witness: 7 was returned at 1 before the restart; the restarted instance
\* answers a request for two accounts within the hour with 10 alone.
C4_Witness ==
  /\ \E e \in returned[1] : e.acc = 7 /\ e.inc = 0 /\ e.at = 1
  /\ incarnation[1] = 1
  /\ response.status = "ok" /\ response.poolSize = 2
  /\ response.at < 1 + minTimeBetweenUses
  /\ response.accountIds = <<10>>

\* C5: an account reserved by an expansion attempt that then failed while
\* publishing is not reserved again, by the attempt of a redelivery, at a time
\* less than minTimeBetweenUses after that reservation.
C5_IdempotentReExpansion ==
  \A c \in Campaigns : \A e1, e2 \in returned[c] :
    (e1.call \in failedCalls /\ e1.call < e2.call /\ e1.acc = e2.acc)
      => e2.at - e1.at >= minTimeBetweenUses

\* C5 witness: the first attempt reserved 7 and 10 at 1 and failed while
\* publishing; the allocator answers the redelivery within the hour with no
\* account.
C5_Witness ==
  /\ 1 \in failedCalls
  /\ \A a \in {7, 10} : \E e \in returned[1] : e.call = 1 /\ e.acc = a /\ e.at = 1
  /\ response.status = "ok" /\ response.call = 2
  /\ response.at < 1 + minTimeBetweenUses
  /\ response.accountIds = <<>>

\* C6: an attempt that ends acknowledged had no failed publication and went
\* through every reserved account and every sampled action; an attempt with a
\* failed publication ends signalled for retry.
C6_AckOnlyAfterAllPublished ==
  /\ exp.outcome = "ack" =>
       /\ ~exp.sendFailed
       /\ exp.actions = <<>>
       /\ exp.accountIds # <<>> => exp.i > Len(exp.accountIds)
  /\ exp.sendFailed => exp.pc = "done" /\ exp.outcome = "retry"

\* C6 witness: an earlier attempt failed while publishing and was retried;
\* the attempt of the redelivery published for two accounts and acknowledged.
C6_Witness ==
  /\ failedCalls # {}
  /\ exp.pc = "done" /\ exp.outcome = "ack"
  /\ Len(exp.accountIds) = 2 /\ exp.i = 3
  /\ Len(engagementQueue) >= 2

\* The campaigns a message of the run was published for.
PublishedFor(c) ==
  {i \in 1..Len(sched.published) : sched.published[i].campaignId = c}

\* C7: a run that completed without error has published exactly one message
\* for each campaign that was active when the listing ran, none for any other
\* campaign, and each message has the single field campaignId.
C7_OneMessagePerActiveCampaign ==
  sched.pc = "ok" =>
    /\ \A c \in Campaigns :
         Cardinality(PublishedFor(c)) =
           IF sched.statusAtList[c] = "active" THEN 1 ELSE 0
    /\ \A i \in 1..Len(sched.published) :
         DOMAIN sched.published[i] = {"campaignId"}

\* C7 witness: campaign 1 was active and campaign 2 paused at the listing;
\* the run completed with the one message of campaign 1 although campaign 2
\* was activated meanwhile.
C7_Witness ==
  /\ sched.pc = "ok"
  /\ sched.statusAtList[1] = "active" /\ sched.statusAtList[2] = "paused"
  /\ campStatus[2] = "active"
  /\ sched.published = <<[campaignId |-> 1]>>

\* C8: a run that has ended, completed or failed, has published a message
\* for every campaign active at the listing or no message at all; a run whose
\* listing failed has published none.
C8_AllOrNothing ==
  sched.pc \in {"ok", "failed"} =>
    LET done == {c \in Campaigns : PublishedFor(c) # {}}
    IN \/ done = {}
       \/ /\ sched.campaigns # <<>>
          /\ done = {c \in Campaigns : sched.statusAtList[c] = "active"}

\* C9: an attempt that found no active row of the account ends with exactly
\* one row written, failed with the reason of line 33, acknowledged, without
\* retry and without a call to the mailbox provider.
C9_UnavailableIsTerminal ==
  (exec.pc = "done" /\ exec.found = "no") =>
    /\ exec.rows = <<LogRow(exec, "failed", "Account not available", "null")>>
    /\ exec.outcome = "ack"
    /\ exec.provider = <<>>

\* C10: an attempt in which an error was raised ends signalled for retry,
\* not acknowledged, the failed row with the error text written just before
\* the retry signal.
C10_FailedRowBeforeRetry ==
  (exec.pc = "done" /\ exec.raised # "none") =>
    /\ exec.outcome = "retry"
    /\ Len(exec.order) >= 2
    /\ exec.order[Len(exec.order) - 1] = "log"
    /\ exec.order[Len(exec.order)] = "retry"
    /\ exec.rows # <<>>
    /\ exec.rows[Len(exec.rows)] = LogRow(exec, "failed", exec.raised, "null")

\* C11: an attempt of the engagement consumer that has ended has appended
\* exactly one row to engagement_logs.
C11_OneRowPerAttempt ==
  exec.pc = "done" => Len(exec.rows) = 1

\* C12: an attempt in which a call to the provider failed (refreshAccessToken,
\* listMessages, getMessage, modifyMessage, sendReply or the HEAD request of a
\* click) ends with a failed row as its last row and signalled for retry,
\* not acknowledged.
C12_ProviderFailureIsRetried ==
  (exec.pc = "done" /\ exec.failedCall # "none") =>
    /\ exec.outcome = "retry"
    /\ exec.rows # <<>>
    /\ exec.rows[Len(exec.rows)].status = "failed"

\* C13: an attempt that met a precondition failure (no message of the sender,
\* no HTML body, no safe link) ends with exactly one row, failed with that
\* reason, acknowledged and not signalled for retry.
C13_PreconditionIsTerminal ==
  (exec.pc = "done" /\ exec.precondition # "none") =>
    /\ Len(exec.rows) = 1
    /\ exec.rows[1].status = "failed"
    /\ exec.rows[1].error_message = exec.precondition
    /\ exec.outcome = "ack"

\* The messages of campaign 1 published for account a with action kind t.
PublishedKind(a, t) ==
  {i \in 1..Len(engagementQueue) :
     /\ engagementQueue[i].campaignId = 1
     /\ engagementQueue[i].gmailAccountId = a
     /\ engagementQueue[i].actionType = t}

\* The rate the expansion at hand read for action kind t.
RateOf(t) ==
  IF t = "move_to_inbox" THEN exp.settings.move_to_inbox_rate
  ELSE IF t = "open" THEN exp.settings.open_rate
  ELSE IF t = "click" THEN exp.settings.click_rate
  ELSE exp.settings.reply_rate

\* C14: in one expansion at most one message is published per account and
\* action kind, none for an account that was not reserved; a kind of rate 0
\* gets no message, and once the expansion is acknowledged every reserved
\* account has the message of every kind of rate 1.
C14_IndependentSampling ==
  exp.pc \in {"publish", "done"} /\ exp.result = "ok" =>
    \A a \in Accounts, t \in ActionTypes :
      /\ Cardinality(PublishedKind(a, t)) <= 1
      /\ a \notin Range(exp.accountIds) => PublishedKind(a, t) = {}
      /\ RateOf(t) = 0 => PublishedKind(a, t) = {}
      /\ (exp.outcome = "ack" /\ a \in Range(exp.accountIds) /\ RateOf(t) = 1000)
           => Cardinality(PublishedKind(a, t)) = 1

\* C14 witness: with every rate at one half, the acknowledged expansion
\* published all four kinds for account 7 and none for account 10.
C14_Witness ==
  /\ exp.pc = "done" /\ exp.outcome = "ack"
  /\ Range(exp.accountIds) = {7, 10}
  /\ \A t \in ActionTypes : RateOf(t) = 500
  /\ \A t \in ActionTypes : Cardinality(PublishedKind(7, t)) = 1
  /\ \A t \in ActionTypes : PublishedKind(10, t) = {}

\* C15: over all campaigns, two returns of the same account by different calls
\* are stamped at least minTimeBetweenUses apart, also when the two calls were
\* made for two different campaigns.
C15_NoDoubleAllocationAcrossCampaigns ==
  \A c1, c2 \in Campaigns : \A e1 \in returned[c1], e2 \in returned[c2] :
    (e1.call # e2.call /\ e1.acc = e2.acc)
      => Abs(e2.at - e1.at) >= minTimeBetweenUses

\* The last instant of the modelled clock.
Horizon == 1 + MaxFine + MaxDays * dayInMs

\* C16: for every allocator instance that has answered a reservation with
\* accounts while the clock can still reach the next hour, the maintenance
\* sweep eventually runs.
C16_SweepEventuallyRuns ==
  \A c \in Campaigns :
    (returned[c] # {} /\ now + alarmPeriod <= Horizon) ~> (alarmPc[c] = "save")

\* The words the filter is said to look for, and the fifth one the code has.
ClaimedWords ==
  { <<"u", "n", "s", "u", "b", "s", "c", "r", "i", "b", "e">>,
    <<"o", "p", "t", "-", "o", "u", "t">>,
    <<"r", "e", "m", "o", "v", "e">>,
    <<"m", "a", "n", "a", "g", "e", "-",
      "p", "r", "e", "f", "e", "r", "e", "n", "c", "e", "s">> }
ExcludedWords == ClaimedWords \cup { <<"o", "p", "t", "o", "u", "t">> }

\* The link contains the word at some position, letter case aside.
ContainsIgnoringCase(link, word) ==
  \E i \in 0..(Len(link) - Len(word)) :
    \A j \in 1..Len(word) : toLowerCase(<<link[i + j]>>) = <<word[j]>>

\* The links containing none of the words, in their original order.
RECURSIVE Kept(_, _)
Kept(links, words) ==
  IF links = <<>> THEN <<>>
  ELSE LET rest == Kept(Tail(links), words)
       IN IF \E word \in words : ContainsIgnoringCase(Head(links), word)
          THEN rest
          ELSE <<Head(links)>> \o rest

\* C17 as stated: the click candidates are, in original order, exactly the
\* extracted links containing none of unsubscribe, opt-out, remove,
\* manage-preferences, compared case-insensitively.
C17_CandidatesAsStated ==
  click.pc = "filtered" => click.safeLinks = Kept(click.links, ClaimedWords)

\* C17 amended: the click candidates are, in original order, exactly the
\* extracted links containing none of unsubscribe, opt-out, optout, remove,
\* manage-preferences, compared case-insensitively.
C17_ClickCandidates ==
  click.pc = "filtered" => click.safeLinks = Kept(click.links, ExcludedWords)

\* C17 witness: ["https://x/unsubscribe", "https://x/view", "https://x/opt-out"]
\* reduced to ["https://x/view"].
C17_Witness ==
  /\ click.pc = "filtered"
  /\ click.links =
       << Base \o <<"u", "n", "s", "u", "b", "s", "c", "r", "i", "b", "e">>,
          Base \o <<"v", "i", "e", "w">>,
          Base \o <<"o", "p", "t", "-", "o", "u", "t">> >>
  /\ click.safeLinks = << Base \o <<"v", "i", "e", "w">> >>

\* C18: a registration carrying a name and an email and no Authorization
\* header is not turned away: unless the store fails (500) it is answered 201
\* with a new clientId and an apiKey that API_KEYS maps to that client.
C18_RegistrationWithoutKey ==
  (apiResp.op = "registerClient" /\ apiResp.auth = None /\ apiResp.valid) =>
    \/ apiResp.status = 500
    \/ /\ apiResp.status = 201
       /\ apiResp.newClientId = clients
       /\ apiResp.apiKey # None
       /\ apiKeys[TheValue(apiResp.apiKey)] = apiResp.newClientId

\* C19: a request that runs as client A leaves every campaign owned by
\* another client as it was, and its response carries neither a row nor a
\* report of such a campaign.
C19_ClientIsolation ==
  [][\A c \in Campaigns :
       (/\ apiResp'.clientId # 0
        /\ campStatus[c] # "missing"
        /\ campOwner[c] # apiResp'.clientId) =>
          /\ campStatus'[c] = campStatus[c]
          /\ campPoolSize'[c] = campPoolSize[c]
          /\ campSettings'[c] = campSettings[c]
          /\ campOwner'[c] = campOwner[c]
          /\ \A row \in apiResp'.rows : row.id # c
          /\ apiResp'.camp = c => apiResp'.report = None
    ]_vars

\* C19 witness: a PUT by one client on a campaign of another, answered 200,
\* with the campaign still as it was created.
C19_Witness ==
  /\ apiResp.op = "updateCampaign" /\ apiResp.status = 200
  /\ apiResp.clientId # 0
  /\ apiResp.camp \in Campaigns
  /\ campOwner[apiResp.camp] \notin {0, apiResp.clientId}
  /\ campStatus[apiResp.camp] = "active"
  /\ campPoolSize[apiResp.camp] = MaxPool
  /\ campSettings[apiResp.camp] = defaultSettings

\* C20: the engagement consumer writes last_used_at of the account only for
\* a task whose log row says success; a task whose row says failed leaves
\* last_used_at as it was.
C20_TouchOnlyOnSuccess ==
  [][(exec.pc = "touch" /\ acctLastUsedAt' # acctLastUsedAt) =>
       /\ exec.rows # <<>>
       /\ exec.rows[Len(exec.rows)].status = "success"
    ]_vars

\* The account has no entry in the map m, or its entry is at least the reuse
\* interval older than t.
Eligible(m, a, t) == a \notin DOMAIN m \/ t - m[a] >= minTimeBetweenUses

\* C21: a reserve call for one account or more answers with no account only
\* when no active account is eligible.
C21_EmptyOnlyWhenNoneEligible ==
  (response.status = "ok" /\ response.poolSize >= 1
     /\ response.accountIds = <<>>) =>
    \A a \in response.activeAtQuery :
      ~Eligible(lastUsedAccounts[response.camp], a, response.at)

\* Account a does not come after account b by ascending last_used_at with
\* the never-used accounts first.
NotAfter(a, b) ==
  \/ acctLastUsedAt[a] = None
  \/ acctLastUsedAt[b] # None
     /\ TheValue(acctLastUsedAt[a]) <= TheValue(acctLastUsedAt[b])

\* rows are the first `limit` active accounts in that order.
IsCandidates(rows, limit) ==
  /\ Len(rows) = Min(limit, Cardinality(ActiveAccounts))
  /\ Range(rows) \subseteq ActiveAccounts
  /\ \A i, j \in 1..Len(rows) : i < j => rows[i] # rows[j] /\ NotAfter(rows[i], rows[j])
  /\ \A a \in ActiveAccounts \ Range(rows) :
       \A i \in 1..Len(rows) : NotAfter(rows[i], a)

\* The first n eligible accounts of rows, in the order of rows.
RECURSIVE FirstEligible(_, _, _, _)
FirstEligible(rows, m, t, n) ==
  IF rows = <<>> \/ n = 0 THEN <<>>
  ELSE IF Eligible(m, Head(rows), t)
       THEN <<Head(rows)>> \o FirstEligible(Tail(rows), m, t, n - 1)
       ELSE FirstEligible(Tail(rows), m, t, n)

\* C22: the accounts a reserve call picks are the first min(poolSize, k)
\* eligible candidates in candidate order, the candidates being the first
\* 2 x poolSize active accounts by ascending last_used_at, never-used first;
\* no account is picked twice.
C22_FirstEligibleInOrder ==
  [][\A k \in 1..MaxReq :
       (calls[k].pc = "query" /\ calls'[k].pc \in {"save", "savefail"}) =>
         LET rows == calls'[k].rows
             ids == calls'[k].accountIds
         IN /\ IsCandidates(rows, 2 * calls[k].poolSize)
            /\ ids = FirstEligible(rows, lastUsedAccounts[calls[k].camp],
                                   now, calls[k].poolSize)
            /\ \A i, j \in 1..Len(ids) : i # j => ids[i] # ids[j]
    ]_vars

\* C22 witness: three active accounts, a call for one account whose two
\* candidates are an account reserved within the hour and an eligible one,
\* answered with the second candidate.
C22_Witness ==
  /\ response.status = "ok" /\ response.poolSize = 1
  /\ Cardinality(response.activeAtQuery) = 3
  /\ Len(response.rows) = 2
  /\ response.accountIds = <<response.rows[2]>>

\* C23: in a reserve call at time now a candidate is eligible exactly when it
\* has no entry in the state map or its entry t has now - t >=
\* minTimeBetweenUses: every picked account is eligible, no account reserved a
\* shorter time ago is picked, and while the call has room left every
\* eligible candidate is picked, one reserved exactly the interval ago
\* included.
C23_EligibleIff ==
  [][\A k \in 1..MaxReq :
       (calls[k].pc = "query" /\ calls'[k].pc \in {"save", "savefail"}) =>
         LET m == lastUsedAccounts[calls[k].camp]
             ids == calls'[k].accountIds
         IN \A a \in Range(calls'[k].rows) :
              /\ (a \in DOMAIN m /\ now - m[a] < minTimeBetweenUses)
                   => a \notin Range(ids)
              /\ (Len(ids) < calls[k].poolSize
                  /\ (a \notin DOMAIN m \/ now - m[a] >= minTimeBetweenUses))
                   => a \in Range(ids)
    ]_vars

\* C23 witness: a call answered with an account that an earlier call
\* reserved exactly minTimeBetweenUses before.
C23_Witness ==
  /\ response.status = "ok"
  /\ \E a \in Range(response.accountIds) : \E e \in returned[response.camp] :
       /\ e.acc = a /\ e.call # response.call
       /\ response.at - e.at = minTimeBetweenUses

\* The map a stored record hydrates to (empty when nothing is stored).
Hydrated(stored) == IF stored = None THEN <<>> ELSE fromStored(TheValue(stored))

\* C24: when a reserve call hands accounts to its caller, the flushed
\* snapshot records each of them with the call's timestamp; and whatever
\* happens afterwards, a crash included, the flushed snapshot and the record
\* the next loadState reads keep every returned reservation, with that
\* timestamp or the one of a later reservation of the account.
C24_PersistedBeforeReturned ==
  /\ response.status = "ok" =>
       \A a \in Range(response.accountIds) :
         /\ a \in DOMAIN Hydrated(disk[response.camp])
         /\ Hydrated(disk[response.camp])[a] = response.at
  /\ \A c \in Campaigns : \A e \in returned[c] :
       \A stored \in {disk[c], storage[c]} :
         /\ e.acc \in DOMAIN Hydrated(stored)
         /\ Hydrated(stored)[e.acc] >= e.at

\* C24 witness: the instance has crashed after returning an account; its map
\* is fresh and the snapshot still has the reservation.
C24_Witness ==
  /\ incarnation[1] = 1
  /\ lastUsedAccounts[1] = <<>>
  /\ \E e \in returned[1] :
       /\ e.inc = 0
       /\ e.acc \in DOMAIN Hydrated(disk[1])
       /\ Hydrated(disk[1])[e.acc] = e.at

\* The state map a handler starts from: the stored snapshot when there is one
\* (loadState replaces the resident map by it), the resident map otherwise.
StateMap(c) == IF storage[c] # None THEN Hydrated(storage[c]) ELSE lastUsedAccounts[c]

\* C25: a sweep at time now leaves in the map exactly the previous entries
\* that are at most 24 hours old, each with its timestamp unchanged, and puts
\* that map as the snapshot; when it completes, the flushed snapshot is that
\* map and the next sweep is set for one hour after the current time.
C25_SweepKeepsDayOldEntries ==
  [][\A c \in Campaigns :
       /\ (alarmPc[c] = "idle" /\ alarmPc'[c] = "save") =>
            /\ DOMAIN lastUsedAccounts'[c] =
                 {a \in DOMAIN StateMap(c) : now - StateMap(c)[a] <= dayInMs}
            /\ \A a \in DOMAIN lastUsedAccounts'[c] :
                 lastUsedAccounts'[c][a] = StateMap(c)[a]
            /\ storage'[c] # None
            /\ Hydrated(storage'[c]) = lastUsedAccounts'[c]
       /\ (alarmPc[c] = "save" /\ alarmPc'[c] = "idle" /\ incarnation'[c] = incarnation[c]) =>
            /\ lastUsedAccounts'[c] = lastUsedAccounts[c]
            /\ disk'[c] # None
            /\ Hydrated(disk'[c]) = lastUsedAccounts'[c]
            /\ alarmAt'[c] = Some(now + alarmPeriod)]_vars

\* C25 witness: the sweep has just run; the snapshot flushed before it still
\* shows an entry the sweep removed, and an entry exactly 24 hours old is kept.
C25_Witness ==
  /\ alarmPc[1] = "save"
  /\ \E a \in DOMAIN Hydrated(disk[1]) : a \notin DOMAIN lastUsedAccounts[1]
  /\ \E b \in DOMAIN lastUsedAccounts[1] : now - lastUsedAccounts[1][b] = dayInMs

\* C26: when the expander takes a campaign message whose campaign has no row
\* or a status other than active, it acknowledges the message and is done
\* with it; no request goes to the allocator, whose map and snapshot stay as
\* they were, and nothing is put on the engagement queue.
C26_InactiveCampaignIsDiscarded ==
  [][\A c \in Campaigns :
       (campaignQueue'[c] < campaignQueue[c] /\ campStatus[c] # "active") =>
         /\ exp'.pc = "done" /\ exp'.camp = c /\ exp'.outcome = "ack"
         /\ exp'.call = 0
         /\ calls' = calls
         /\ lastUsedAccounts' = lastUsedAccounts
         /\ storage' = storage /\ disk' = disk
         /\ engagementQueue' = engagementQueue]_vars

\* C26 witness: a message of a campaign that is no longer active has been
\* acknowledged after the lookup, the allocator holding earlier reservations.
C26_Witness ==
  /\ exp.pc = "done" /\ exp.campaign = "null" /\ exp.outcome = "ack"
  /\ campStatus[exp.camp] \in {"paused", "missing"}
  /\ lastUsedAccounts[exp.camp] # <<>>
  /\ campaignQueue[exp.camp] = 0

\* C27: when the allocator has answered the expander's request with an empty
\* list of accounts, the expander acknowledges the campaign message and is
\* done with it: the message is not redelivered and nothing is put on the
\* engagement queue.
C27_EmptyReservationIsAcknowledged ==
  [][(exp.pc = "got" /\ exp.result = "ok" /\ exp.accountIds = <<>> /\ exp' # exp) =>
       /\ exp'.pc = "done" /\ exp'.outcome = "ack"
       /\ campaignQueue' = campaignQueue
       /\ engagementQueue' = engagementQueue]_vars

\* C27 witness: the allocator answered with no account, every active account
\* being within the reuse window, and the message has been acknowledged.
C27_Witness ==
  /\ exp.pc = "done" /\ exp.campaign = "row"
  /\ exp.result = "ok" /\ exp.accountIds = <<>>
  /\ exp.outcome = "ack"
  /\ campaignQueue[exp.camp] = 0
  /\ \A a \in InitialAccounts :
       /\ acctStatus[a] = "active"
       /\ a \in DOMAIN lastUsedAccounts[exp.camp]
       /\ now - lastUsedAccounts[exp.camp][a] < minTimeBetweenUses

\* The calls that read or change the mailbox; refreshAccessToken is not one.
MailboxCalls == {"listMessages", "getMessage", "modifyMessage", "sendReply",
                 "fetch"}

\* C28: for an account whose stored credential was found expired, no call to
\* the mailbox is made until the credential has been refreshed and written
\* to the store; an attempt whose refresh failed ends without any call to
\* the mailbox and signalled for retry.
C28_RefreshBeforeProviderCalls ==
  /\ exec.creds \in {"expired", "refreshed"} =>
       \A i \in 1..Len(exec.provider) : exec.provider[i] \notin MailboxCalls
  /\ exec.creds = "stored" =>
       /\ exec.provider # <<>>
       /\ exec.provider[1] = "refreshAccessToken"
  /\ (exec.pc = "done" /\ exec.failedCall = "refreshAccessToken") =>
       /\ \A i \in 1..Len(exec.provider) : exec.provider[i] \notin MailboxCalls
       /\ exec.outcome = "retry"

\* The number of ack and retry signals given for the message at hand.
Signals(order) ==
  Cardinality({i \in 1..Len(order) : order[i] \in {"ack", "retry"}})

\* C29: when the handling of a message by the expander or by the executor
\* has ended, exactly one of ack and retry has been signalled for it, also
\* after a failed insert of a log row or a failed update of the credentials
\* or of last_used_at.
C29_ExactlyOneSignal ==
  /\ exp.pc = "done" => exp.outcome \in {"ack", "retry"}
  /\ exec.pc = "done" =>
       /\ exec.outcome \in {"ack", "retry"}
       /\ Signals(exec.order) = 1

\* C30: when the handling of a message of a batch ends, with an ack, a retry
\* or an error, the messages of the batch that come after it are still to be
\* handled by the same call of the consumer, as they were before.
C30_BatchIndependence ==
  [][(exec.pc # "done" /\ exec'.pc = "done") => exec'.batch = exec.batch]_vars

\* A step of the allocator instance of campaign c: one of its requests or its
\* sweep moves on.
InstanceStep(c) ==
  \/ \E k \in 1..MaxReq :
       calls'[k] # calls[k] /\ (calls[k].camp = c \/ calls'[k].camp = c)
  \/ alarmPc'[c] # alarmPc[c]

\* C31: a step of the allocator instance of one campaign, request or sweep,
\* leaves the resident map and the snapshot of every other campaign as they
\* were, and the accounts a request obtains are the first eligible rows
\* judged by the map of its own instance alone.
C31_InstancesIndependent ==
  [][\A c \in Campaigns :
       /\ InstanceStep(c) =>
            \A d \in Campaigns \ {c} :
              /\ lastUsedAccounts'[d] = lastUsedAccounts[d]
              /\ storage'[d] = storage[d]
              /\ disk'[d] = disk[d]
       /\ \A k \in 1..MaxReq :
            (calls[k].camp = c /\ calls[k].pc = "query"
               /\ calls'[k].pc \in {"save", "savefail"}) =>
              calls'[k].accountIds =
                FirstEligible(calls'[k].rows, lastUsedAccounts[c], now,
                              calls[k].poolSize)]_vars

\* C31 witness: campaign 2 has just been given the accounts that campaign 1
\* still holds within the reuse window, and both snapshots are flushed.
C31_Witness ==
  /\ response.status = "ok" /\ response.camp = 2
  /\ response.accountIds # <<>>
  /\ disk[1] # None /\ disk[2] # None
  /\ \A a \in Range(response.accountIds) :
       /\ a \in DOMAIN lastUsedAccounts[1]
       /\ response.at - lastUsedAccounts[1][a] < minTimeBetweenUses
       /\ Hydrated(disk[2])[a] = response.at
       /\ Hydrated(disk[1])[a] = lastUsedAccounts[1][a]

\* C32: the executor handles a published message in the same way whatever
\* the status of its campaign.  Its steps go on while the campaign is paused
\* or completed and leave the campaign as it is; a change of the campaign's
\* status leaves the attempt and the log as they are; the account is looked
\* up by its own status only; and an attempt in which nothing failed ends
\* with the action carried out, its success row logged and the message
\* acknowledged.
C32_PublishedMessageIsExecuted ==
  [][/\ exec' # exec => campStatus' = campStatus
     /\ campStatus' # campStatus => (exec' = exec /\ log' = log)
     /\ (exec.pc = "select" /\ exec'.pc # "select" /\ exec'.raised = "none") =>
          exec'.found = (IF acctStatus[exec.msg.gmailAccountId] = "active"
                         THEN "yes" ELSE "no")
     /\ (exec.pc # "done" /\ exec'.pc = "done" /\ exec'.found = "yes"
           /\ exec'.raised = "none" /\ exec'.failedCall = "none"
           /\ exec'.precondition = "none") =>
          /\ exec'.outcome = "ack"
          /\ exec'.provider # <<>>
          /\ exec'.provider[Len(exec'.provider)] = ActionCall(exec.msg.actionType)
          /\ exec'.rows = <<LogRow(exec, "success", "null", "subject")>>
          /\ log'[Len(log')] = LogRow(exec, "success", "null", "subject")]_vars

\* C32 witness: a message taken up after its campaign had been paused or
\* completed has been carried out, with its success row and acknowledged,
\* the campaign still not active.
C32_Witness ==
  /\ exec.pc = "done" /\ exec.outcome = "ack"
  /\ exec.campaign \in {"paused", "completed"}
  /\ campStatus[exec.msg.campaignId] # "active"
  /\ exec.rows = <<LogRow(exec, "success", "null", "subject")>>
  /\ log # <<>> /\ log[Len(log)] = LogRow(exec, "success", "null", "subject")

\* C33: every step keeps the rows engagement_logs already had, in place and
\* unchanged; the table only grows, by rows added at its end.
C33_LogAppendOnly ==
  [][/\ Len(log') >= Len(log)
     /\ SubSeq(log', 1, Len(log)) = log]_vars

\* C33 witness: the log holds the rows of two attempts, the failed row of the
\* first still in place under the row of the second.
C33_Witness ==
  /\ Len(log) >= 2
  /\ exec.n = 2 /\ exec.pc = "done"
  /\ exec.rows # <<>>
  /\ log[1].status = "failed"
  /\ log[Len(log)] = exec.rows[Len(exec.rows)]

\* C34: a request that fails, at the store query or at the put of the
\* snapshot, answers with the error payload and no account, and leaves the
\* resident map, the snapshot and the map the next request will start from
\* as they were when the request began its selection.
C34_FailedReserveChangesNothing ==
  [][\A k \in 1..MaxReq :
       LET c == calls[k].camp IN
       /\ (calls[k].pc = "query" /\ calls'[k].pc \in {"savefail", "closed"}
             /\ response'.status # "ok") =>
            /\ lastUsedAccounts'[c] = lastUsedAccounts[c]
            /\ storage'[c] = storage[c] /\ disk'[c] = disk[c]
            /\ StateMap(c)' = StateMap(c)
       /\ (calls[k].pc = "savefail" /\ calls'[k].pc = "closed") =>
            /\ response'.status = "error" /\ response'.accountIds = <<>>
            /\ lastUsedAccounts'[c] = lastUsedAccounts[c]
            /\ storage'[c] = storage[c] /\ disk'[c] = disk[c]]_vars

\* C35: when the allocator has answered the expander's request with the
\* error payload, the expander ends the message with a retry and without an
\* ack: the message is delivered again and nothing is put on the engagement
\* queue.
C35_ErrorPayloadIsRetried ==
  [][(exp.pc = "got" /\ exp.result = "error" /\ exp' # exp) =>
       /\ exp'.pc = "done" /\ exp'.outcome = "retry"
       /\ campaignQueue'[exp.camp] = campaignQueue[exp.camp] + 1
       /\ engagementQueue' = engagementQueue]_vars

\* C35 witness: the allocator answered with the error payload and the
\* campaign message is back on the queue.
C35_Witness ==
  /\ exp.pc = "done" /\ exp.campaign = "row"
  /\ exp.result = "error" /\ exp.outcome = "retry"
  /\ exp.accountIds = <<>>
  /\ campaignQueue[exp.camp] = 1

\* C36: a sweep keeps, with its timestamp, every entry of the state map that
\* is younger than the reuse interval, and for every account and every
\* instant from the sweep on the filter of a request gives the same answer
\* on the map after the sweep as on the map before it.
C36_SweepKeepsReuseWindow ==
  [][\A c \in Campaigns :
       (alarmPc[c] = "idle" /\ alarmPc'[c] = "save") =>
         /\ \A a \in DOMAIN StateMap(c) :
              now - StateMap(c)[a] < minTimeBetweenUses =>
                /\ a \in DOMAIN lastUsedAccounts'[c]
                /\ lastUsedAccounts'[c][a] = StateMap(c)[a]
                /\ a \in DOMAIN StateMap(c)'
                /\ StateMap(c)'[a] = StateMap(c)[a]
         /\ \A a \in Accounts : \A t \in now..Horizon :
              Available(StateMap(c)', a, t) = Available(StateMap(c), a, t)]_vars

\* C36 witness: a sweep has just removed a day-old entry while an entry
\* younger than the reuse interval is in the map, and has kept that one.
C36_Witness ==
  /\ alarmPc[1] = "save"
  /\ \E a \in DOMAIN lastUsedAccounts[1] :
       now - lastUsedAccounts[1][a] < minTimeBetweenUses
  /\ \E b \in DOMAIN Hydrated(disk[1]) : b \notin DOMAIN lastUsedAccounts[1]

\* C37: every engagement message the expander publishes is for an account of
\* the reservation of the attempt under way and of a kind not yet published
\* for that account in this attempt; and when an earlier attempt that ended
\* in retry had reserved the same account, at least the reuse interval has
\* passed since that reservation.
C37_NoResendOnRedelivery ==
  [][engagementQueue' # engagementQueue =>
       LET m == engagementQueue'[Len(engagementQueue')] IN
       /\ engagementQueue' = Append(engagementQueue, m)
       /\ m.campaignId = exp.camp
       /\ m.gmailAccountId \in Range(exp.accountIds)
       /\ [acc |-> m.gmailAccountId, kind |-> m.actionType] \notin exp.published
       /\ \A e \in returned[exp.camp] :
            (e.call \in failedCalls /\ e.call # exp.call
               /\ e.acc = m.gmailAccountId) =>
              now - e.at >= minTimeBetweenUses]_vars

\* C37 witness: the first attempt reserved two accounts, published for the
\* first and failed at the send for the second; the redelivery, within the
\* reuse interval, got no account and was acknowledged, and the second
\* account has no message.
C37_Witness ==
  /\ failedCalls = {1}
  /\ exp.pc = "done" /\ exp.call = 2 /\ exp.outcome = "ack"
  /\ exp.result = "ok" /\ exp.accountIds = <<>>
  /\ \E e1, e2 \in returned[1] :
       /\ e1.call = 1 /\ e2.call = 1 /\ e1.acc # e2.acc
       /\ now - e2.at < minTimeBetweenUses
       /\ \E i \in 1..Len(engagementQueue) :
            engagementQueue[i].gmailAccountId = e1.acc
       /\ \A i \in 1..Len(engagementQueue) :
            engagementQueue[i].gmailAccountId # e2.acc

\* C38: every message on the engagement queue carries a delay that is a
\* whole number of seconds from 0 to 299.
C38_DelayWithinFiveMinutes ==
  \A i \in 1..Len(engagementQueue) :
    /\ engagementQueue[i].delaySeconds \in Nat
    /\ 0 <= engagementQueue[i].delaySeconds
    /\ engagementQueue[i].delaySeconds < 300

\* C38 witness: a message published with the largest delay, 299 seconds.
C38_Witness ==
  /\ engagementQueue # <<>>
  /\ engagementQueue[Len(engagementQueue)].delaySeconds = 299

====
